---- MODULE Spec2Model ----
(***************************************************************************)
(* Model of the BoilerLiving data pipeline (backend/data_pipeline):        *)
(*   - the Record Assembler          parsers.py   _mk_record                *)
(*   - the Text Normalizer           normalize.py normalize_*               *)
(*   - the Idempotent Store          scraper_selenium.py insert_listings    *)
(*   - the Crawl Frontier Builder    link_discovery.py discover_links       *)
(*                                                                         *)
(* Python strings are sequences of one-character strings, so that          *)
(* concatenation, prefixes, slugs and regular-expression searches are      *)
(* computed character by character as the code computes them.              *)
(***************************************************************************)
EXTENDS Integers, Sequences, FiniteSets, TLC

VARIABLES
    comp,        \* which component this behaviour exercises
    pc,          \* "in" before the component's function has run, "done" after
    dbExists,    \* the listings table has been created (ensure_db)
    table,       \* rows of the listings table, in id order
    valid,       \* insert_listings: the records handed to executemany
    ret,         \* insert_listings: the returned count
    written,     \* ids of the rows inserted or updated by the last call
    calls,       \* number of insert_listings calls made so far
    tableBefore, \* the table as the last insert_listings call found it
    listings,    \* the argument of insert_listings / _stabilize_unit_urls
    stabilized,  \* _stabilize_unit_urls: the result
    args,        \* _mk_record: the arguments
    rec,         \* _mk_record: the result
    startUrl,    \* discover_links: start_url, parsed
    fetched,     \* discover_links: the seed page was fetched without error
    sameDomain,  \* discover_links: same_domain
    allowPat,    \* discover_links: allow_patterns
    denyPat,     \* discover_links: deny_patterns
    anchors,     \* discover_links: the href of every anchor of the seed page
    out,         \* discover_links: the returned list
    pageUrl,     \* parse_html: url
    page,        \* parse_html: the document html parses to
    parsed,      \* parse_html: the records returned, or the exception
    manyCall,    \* parse_html_many: the arguments
    manyOut,     \* parse_html_many: the records returned, or the exception
    priceText,   \* normalize_price: text
    normPrice,   \* normalize_price: the result
    driverAlive, \* scrape_site: the browser driver answers
    frontier,    \* scrape_site: discovered[:MAX_LINKS_PER_SITE]
    pos,         \* scrape_site: index in frontier of the next link
    attempted,   \* scrape_site: the links handed to scrape_with_selenium
    total,       \* scrape_site: total_inserted
    crawlPc,     \* scrape_site: "start", "loop", "finished", "broke", "raised"
    siteNo,      \* main block: index in START_SITES of the current site
    mainPc,      \* main block: "check", "scrape", "recover" or "end"
    driver,      \* main block: the driver in use, numbered by creation
    retired      \* the drivers found dead or in use when a site raised

storeVars == <<dbExists, table, valid, ret, written, calls, tableBefore>>
keyVars   == <<listings, stabilized>>
asmVars   == <<args, rec>>
linkVars  == <<startUrl, fetched, sameDomain, allowPat, denyPat, anchors, out>>

parseVars == <<pageUrl, page, parsed>>
manyVars  == <<manyCall, manyOut>>
normVars  == <<priceText, normPrice>>
mainVars  == <<siteNo, mainPc, driver, retired>>
crawlVars == <<driverAlive, frontier, pos, attempted, total, crawlPc, mainVars>>
restVars  == <<parseVars, manyVars, normVars, crawlVars>>

vars == <<comp, pc, storeVars, keyVars, asmVars, linkVars, restVars>>

----------------------------------------------------------------------------
(* Python values *)

\* Python's None where a number is expected (model numbers are naturals)
None == -1

\* Python's None where a string is expected
NoneStr == <<"None">>

Min(a, b) == IF a <= b THEN a ELSE b

MinOf(S) == CHOOSE x \in S : \A y \in S : x <= y

\* the least of a set of positions, 0 when there is none
FirstIn(S) == IF S = {} THEN 0 ELSE MinOf(S)

Range(s) == {s[i] : i \in 1..Len(s)}

\* all sequences over S of length 0..n
SeqsUpTo(S, n) == UNION {[1..k -> S] : k \in 0..n}

----------------------------------------------------------------------------
(* Characters and strings *)

DigitChars == <<"0", "1", "2", "3", "4", "5", "6", "7", "8", "9">>

UpperChars == <<"A", "B", "C", "D", "E", "F", "G", "H", "I", "J", "K", "L", "M",
                "N", "O", "P", "Q", "R", "S", "T", "U", "V", "W", "X", "Y",
                    "Z">>

LowerChars == <<"a", "b", "c", "d", "e", "f", "g", "h", "i", "j", "k", "l", "m",
                "n", "o", "p", "q", "r", "s", "t", "u", "v", "w", "x", "y",
                    "z">>

IsDigit(c) == c \in Range(DigitChars)

IsSpace(c) == c \in {" ", "\t", "\n"}

DigitVal(c) == (CHOOSE i \in 1..10 : DigitChars[i] = c) - 1

\* str.lower() on one character
LowerChar(c) ==
    IF c \in Range(UpperChars)
    THEN LowerChars[CHOOSE i \in 1..26 : UpperChars[i] = c]
    ELSE c

\* str.lower()
Lower(s) == [i \in 1..Len(s) |-> LowerChar(s[i])]

\* str(n) for a natural number n
RECURSIVE Str(_)
Str(n) ==
    IF n < 10 THEN <<DigitChars[n + 1]>>
    ELSE Str(n \div 10) \o <<DigitChars[(n % 10) + 1]>>

\* s.startswith(p)
StartsWith(s, p) == Len(p) <= Len(s) /\ SubSeq(s, 1, Len(p)) = p

\* s.endswith(p)
EndsWith(s, p) ==
    Len(p) <= Len(s) /\ SubSeq(s, Len(s) - Len(p) + 1, Len(s)) = p

\* p in s
Contains(s, p) ==
    \E i \in 1..(Len(s) - Len(p) + 1) : SubSeq(s, i, i + Len(p) - 1) = p

\* s.lstrip(chars) / s.rstrip(chars) / s.strip(chars), chars given as a set
RECURSIVE LStrip(_, _)
LStrip(s, cs) ==
    IF s # <<>> /\ Head(s) \in cs THEN LStrip(Tail(s), cs) ELSE s

RECURSIVE RStrip(_, _)
RStrip(s, cs) ==
    IF s # <<>> /\ s[Len(s)] \in cs
    THEN RStrip(SubSeq(s, 1, Len(s) - 1), cs)
    ELSE s

StripChars(s, cs) == RStrip(LStrip(s, cs), cs)

\* s.strip()
Strip(s) == StripChars(s, {" ", "\t", "\n"})

----------------------------------------------------------------------------
(* Python arguments that may be None, an int or a str *)

PyNone == [k |-> "none"]
PyInt(n) == [k |-> "int", v |-> n]
PyStr(s) == [k |-> "str", v |-> s]

\* a Python float with finitely many decimals: m / 10^e, without trailing
\* zero decimals
RECURSIVE Float(_, _)
Float(m, e) == IF e > 0 /\ m % 10 = 0 THEN Float(m \div 10, e - 1)
               ELSE [m |-> m, e |-> e]

\* None where a float is expected
NoFloat == [m |-> -1, e |-> 0]

RECURSIVE Pow10(_)
Pow10(e) == IF e = 0 THEN 1 ELSE 10 * Pow10(e - 1)

PyFloat(f) == [k |-> "float", v |-> f]

\* str(f) for a float with finitely many decimals: "2.0", "1.5", "0.25"
FloatStr(f) ==
    IF f.e = 0 THEN Str(f.m) \o <<".", "0">>
    ELSE LET fs == Str(f.m % Pow10(f.e))
         IN  Str(f.m \div Pow10(f.e)) \o <<".">>
             \o [i \in 1..(f.e - Len(fs)) |-> "0"] \o fs

\* str(x) for an int, a float or a str
PyToStr(x) ==
    IF x.k = "int" THEN Str(x.v)
    ELSE IF x.k = "float" THEN FloatStr(x.v)
    ELSE x.v

----------------------------------------------------------------------------
(* normalize.py *)

\* int(digits) for a sequence of digit characters, most significant first
RECURSIVE DigitsVal(_)
DigitsVal(ds) ==
    IF ds = <<>> THEN 0
    ELSE 10 * DigitsVal(SubSeq(ds, 1, Len(ds) - 1)) + DigitVal(ds[Len(ds)])

\* s.replace(a, b) for one character a and a string b of at most one
\* character
ReplaceChar(s, a, b) ==
    IF b = <<>> THEN SelectSeq(s, LAMBDA c : c # a)
    ELSE [i \in 1..Len(s) |-> IF s[i] = a THEN b[1] ELSE s[i]]

\* length of the maximal run of digits at the start of s
RECURSIVE DigitRun(_)
DigitRun(s) ==
    IF s # <<>> /\ IsDigit(Head(s)) THEN 1 + DigitRun(Tail(s)) ELSE 0

\* length of the match of (?:\.\d+)? at the start of rest
FracLen(rest) ==
    IF rest # <<>> /\ Head(rest) = "." /\ DigitRun(Tail(rest)) > 0
    THEN 1 + DigitRun(Tail(rest))
    ELSE 0

\* length of the match of \d+(?:\.\d+)? at the start of s, n its digits
NumLenFrom(s, n) ==
    IF n = 0 THEN 0 ELSE n + FracLen(SubSeq(s, n + 1, Len(s)))

\* length of the match of \d+(?:\.\d+)? at the start of s (0: no match)
NumMatchLen(s) == NumLenFrom(s, DigitRun(s))

\* float(tok) for a match of \d+(?:\.\d+)? with n digits before the point
NumValFrom(tok, n) ==
    IF n = Len(tok) THEN Float(DigitsVal(tok), 0)
    ELSE Float(DigitsVal(SubSeq(tok, 1, n) \o SubSeq(tok, n + 2, Len(tok))),
               Len(tok) - n - 1)

\* float(n) for a match of \d+(?:\.\d+)?
NumVal(tok) == NumValFrom(tok, DigitRun(tok))

\* the position of the first digit of s, 0 when there is none
FirstDigit(s) == FirstIn({i \in 1..Len(s) : IsDigit(s[i])})

\* re.findall(r"\d+(?:\.\d+)?", s): the matches, left to right
RECURSIVE FindNums(_)

\* the match of length n at the start of rest, and the matches after it
NumsAfter(rest, n) ==
    <<SubSeq(rest, 1, n)>> \o FindNums(SubSeq(rest, n + 1, Len(rest)))

\* the matches in rest, which is empty or starts with the first digit
NumsIn(rest) ==
    IF rest = <<>> THEN <<>> ELSE NumsAfter(rest, NumMatchLen(rest))

\* s from position p on, nothing when p = 0
FromPos(s, p) == IF p = 0 THEN <<>> ELSE SubSeq(s, p, Len(s))

FindNums(s) == NumsIn(FromPos(s, FirstDigit(s)))

\* the first element of a list of strings, <<>> when there is none
FirstOf(ns) == IF ns = <<>> THEN <<>> ELSE ns[1]

\* re.search(r"\d+(?:\.\d+)?", s): the first match, <<>> when there is none
FirstNum(s) == FirstOf(FindNums(s))

\* the digits at the start of rest
LeadingDigits(rest) == SubSeq(rest, 1, DigitRun(rest))

\* re.search(r"\d+", s): the first match, <<>> when there is none
FirstInt(s) == LeadingDigits(FromPos(s, FirstDigit(s)))

RECURSIVE MaxScale(_)
MaxScale(vs) ==
    IF vs = <<>> THEN 0
    ELSE LET r == MaxScale(Tail(vs))
         IN  IF Head(vs).e > r THEN Head(vs).e ELSE r

\* sum(vals), in units of 10^-k
RECURSIVE SumScaled(_, _)
SumScaled(vs, k) ==
    IF vs = <<>> THEN 0
    ELSE Head(vs).m * Pow10(k - Head(vs).e) + SumScaled(Tail(vs), k)

\* round(num / den) as Python 3 rounds: to nearest, ties to the even integer
RoundHalfEven(num, den) ==
    LET q == num \div den
        r == num % den
    IN  IF 2 * r < den THEN q
        ELSE IF 2 * r > den THEN q + 1
        ELSE IF q % 2 = 0 THEN q ELSE q + 1

\* the digits of the largest integer the model holds as a number; the values
\* of longer tokens are held as sequences of bits, most significant first
NarrowMax == <<"9", "9", "9", "9", "9", "9", "9", "9", "9">>

Narrow(tok) == Len(tok) <= Len(NarrowMax)

Wide(bits) == [wide |-> bits]

\* the bits of the mantissa of a float
MantissaBits == 53

\* bit i of b, counted from the least significant bit 0
BitAt(b, i) == IF i < Len(b) THEN b[Len(b) - i] ELSE 0

\* b without leading zeros
Trimmed(b) ==
    IF \A i \in 1..Len(b) : b[i] = 0 THEN <<>>
    ELSE SubSeq(b, CHOOSE i \in 1..Len(b) :
                       b[i] = 1 /\ \A j \in 1..(i - 1) : b[j] = 0, Len(b))

\* a string of decimal digits is turned into bits ChunkBits bits at a time
ChunkBits == 15
ChunkBase == 2 ^ ChunkBits

\* ds // ChunkBase for a string of decimal digits, digit by digit, carry the
\* remainder of the digits before ds
RECURSIVE DivFrom(_, _)
DivFrom(ds, carry) ==
    IF ds = <<>> THEN <<>>
    ELSE <<DigitChars[((carry * 10 + DigitVal(Head(ds))) \div ChunkBase) + 1]>>
         \o DivFrom(Tail(ds), (carry * 10 + DigitVal(Head(ds))) % ChunkBase)

\* ds % ChunkBase
RECURSIVE RemFrom(_, _)
RemFrom(ds, carry) ==
    IF ds = <<>> THEN carry
    ELSE RemFrom(Tail(ds), (carry * 10 + DigitVal(Head(ds))) % ChunkBase)

\* the ChunkBits bits of n < ChunkBase
BitsOfChunk(n) ==
    [i \in 1..ChunkBits |-> (n \div (2 ^ (ChunkBits - i))) % 2]

\* int(ds) in binary, in whole chunks
RECURSIVE ChunksOf(_)
ChunksOf(ds) ==
    IF \A i \in 1..Len(ds) : ds[i] = "0" THEN <<>>
    ELSE ChunksOf(DivFrom(ds, 0)) \o BitsOfChunk(RemFrom(ds, 0))

\* int(ds) in binary, without leading zeros
BitsOf(ds) == Trimmed(ChunksOf(ds))

\* a + b + c in binary, c the carry into bit 0: the carry into bit i comes
\* from the nearest lower position that makes one
AddBits(a, b, c) ==
    LET n == (IF Len(a) > Len(b) THEN Len(a) ELSE Len(b)) + 1
        Makes(j) == IF j < 0 THEN c = 1 ELSE BitAt(a, j) + BitAt(b, j) = 2
        Passes(k) == BitAt(a, k) + BitAt(b, k) >= 1
        Carry(i) == IF \E j \in (-1)..(i - 1) :
                          Makes(j) /\ \A k \in (j + 1)..(i - 1) : Passes(k)
                    THEN 1 ELSE 0
    IN  Trimmed([i \in 1..n |->
                    (BitAt(a, n - i) + BitAt(b, n - i) + Carry(n - i)) % 2])

IncBits(b) == AddBits(b, <<>>, 1)

\* the float nearest to an integer: its first MantissaBits bits, rounded to
\* nearest with ties to the even mantissa
\* keep, the first MantissaBits bits, rounded by the bits of rest
RoundKept(keep, rest) ==
    (IF /\ rest[1] = 1
        /\ \/ \E i \in 2..Len(rest) : rest[i] = 1
           \/ keep[MantissaBits] = 1
     THEN IncBits(keep) ELSE keep) \o [i \in 1..Len(rest) |-> 0]

RoundToFloat(b) ==
    IF Len(b) <= MantissaBits THEN b
    ELSE RoundKept(SubSeq(b, 1, MantissaBits),
                   SubSeq(b, MantissaBits + 1, Len(b)))

\* round(s / 2) for a float s that holds an integer, q the bits of s // 2:
\* the division is exact and round() takes a half to the even integer
RoundHalf(s, q) ==
    IF s = <<>> \/ s[Len(s)] = 0 THEN q
    ELSE IF q = <<>> \/ q[Len(q)] = 0 THEN q
    ELSE IncBits(q)

HalfOf(s) == RoundHalf(s, SubSeq(s, 1, Len(s) - 1))

\* int(round(sum(vals) / len(vals))) for one or two integer tokens of which
\* one is not Narrow: float(n) rounds each token and sum rounds the sum
WideMean(nums) ==
    IF Len(nums) = 1 THEN Wide(RoundToFloat(BitsOf(nums[1])))
    ELSE Wide(HalfOf(RoundToFloat(AddBits(RoundToFloat(BitsOf(nums[1])),
                                          RoundToFloat(BitsOf(nums[2])),
                                          0))))

\* round(sum(vals) / len(vals)), vals in units of 10^-k
ScaledMean(vals, k) ==
    RoundHalfEven(SumScaled(vals, k), Len(vals) * Pow10(k))

\* vals = [float(n) for n in nums]
FloatsOf(nums) == [i \in 1..Len(nums) |-> NumVal(nums[i])]

NarrowMean(vals) == ScaledMean(vals, MaxScale(vals))

\* what normalize_price makes of the matches nums
PriceOfNums(nums) ==
    IF nums = <<>> THEN None
    ELSE IF \E i \in 1..Len(nums) : ~Narrow(nums[i]) THEN WideMean(nums)
    ELSE NarrowMean(FloatsOf(nums))

\* normalize_price(text) for a str
normalize_price(text) ==
    IF text = <<>> THEN None
    ELSE PriceOfNums(FindNums(ReplaceChar(text, ",", <<>>)))

Studio == <<"s", "t", "u", "d", "i", "o">>

\* int(m.group()) for the match m of \d+, None when there is none
IntOrNone(d) == IF d = <<>> THEN None ELSE DigitsVal(d)

\* what normalize_beds makes of t = str(text).strip().lower()
BedsOfText(t) == IF Contains(t, Studio) THEN 0 ELSE IntOrNone(FirstInt(t))

\* normalize_beds(text)
normalize_beds(x) ==
    IF x = PyNone THEN None ELSE BedsOfText(Lower(Strip(PyToStr(x))))

\* float(m.group()) for the match m of \d+(?:\.\d+)?, None when there is none
FloatOrNone(d) == IF d = <<>> THEN NoFloat ELSE NumVal(d)

\* normalize_baths(text)
normalize_baths(x) ==
    IF x = PyNone THEN NoFloat
    ELSE FloatOrNone(FirstNum(Lower(Strip(PyToStr(x)))))

\* the characters of s at the positions keep, a white space as one space
SpacedAt(s, keep) ==
    [k \in 1..Len(keep) |-> IF IsSpace(s[keep[k]]) THEN " " ELSE s[keep[k]]]

\* re.sub(r"\s+", " ", s): of a run of white space the first character stays
CollapseSpace(s) ==
    SpacedAt(s, SelectSeq([i \in 1..Len(s) |-> i],
                          LAMBDA i : \/ ~IsSpace(s[i])
                                     \/ i = 1
                                     \/ ~IsSpace(s[i - 1])))

\* normalize_address(addr_str); "\xa0" is written "nbsp"
normalize_address(a) ==
    IF a = NoneStr \/ a = <<>> THEN <<>>
    ELSE Strip(CollapseSpace(ReplaceChar(a, "nbsp", <<" ">>)))

----------------------------------------------------------------------------
(* parsers.py: _is_plausible_rent, _mk_record *)

\* _now(): the date of the run, "%m-%d-%Y"
Now == <<"1", "1", "-", "0", "4", "-", "2", "0", "2", "6">>

MinRent == 300
MaxRent == 6000
TitleMaxLen == 200

\* a bound that lets every positive price through
IsPositiveRent(v) == v > 0

IsPlausibleRent(v) == MinRent <= v /\ v <= MaxRent

\* the value _mk_record returns instead of a record
NoRecord == [none |-> TRUE]

\* p = normalize_price(str(price)) if not isinstance(price, int) else price
PriceArg(price) ==
    IF price.k = "int" THEN price.v ELSE normalize_price(PyToStr(price))

\* the rest of _mk_record, p the normalised price
RecordOf(url, company, title, p, beds, baths, address) ==
    IF p = None \/ p = 0 \/ ~IsPlausibleRent(p) THEN NoRecord
    ELSE [url     |-> url,
          company |-> company,
          title   |-> LET t == IF title = NoneStr \/ title = <<>>
                               THEN company ELSE title
                      IN  SubSeq(t, 1, Min(Len(t), TitleMaxLen)),
          price   |-> p,
          beds    |-> IF beds = PyNone \/ beds = PyStr(<<>>) THEN 0
                      ELSE normalize_beds(beds),
          baths   |-> IF baths = PyNone \/ baths = PyStr(<<>>)
                      THEN Float(0, 0)
                      ELSE normalize_baths(baths),
          address |-> IF address = NoneStr \/ address = <<>> THEN <<>>
                      ELSE normalize_address(address),
          last_scraped_at |-> Now]

mk_record(url, company, title, price, beds, baths, address) ==
    IF price = PyNone THEN NoRecord
    ELSE RecordOf(url, company, title, PriceArg(price), beds, baths, address)

----------------------------------------------------------------------------
(* parsers.py: the regular expressions and _prices_from_text *)

\* [A-Za-z0-9_], the characters \w and \b are about
IsWordChar(c) ==
    c \in Range(UpperChars) \/ c \in Range(LowerChars) \/ IsDigit(c) \/ c = "_"

\* the index of the first character at or after i that is not white space
RECURSIVE SkipWs(_, _)
SkipWs(s, i) == IF i <= Len(s) /\ IsSpace(s[i]) THEN SkipWs(s, i + 1) ELSE i

\* s[i-1:].startswith(w)
At(s, i, w) ==
    i >= 1 /\ i + Len(w) - 1 <= Len(s) /\ SubSeq(s, i, i + Len(w) - 1) = w

\* the length of the match of \d+ at position i
DigitsAt(s, i) == DigitRun(SubSeq(s, i, Len(s)))

\* the length of the match of [\d,]* at position i
RECURSIVE DigitCommaRun(_, _)
DigitCommaRun(s, i) ==
    IF i <= Len(s) /\ (IsDigit(s[i]) \/ s[i] = ",")
    THEN 1 + DigitCommaRun(s, i + 1)
    ELSE 0

\* re.sub(r"[^\d]", "", s)
OnlyDigits(s) == SelectSeq(s, IsDigit)

\* the end (exclusive) of the match of \d[\d,]* at position j, 0 when there
\* is no match
DigitsEnd(s, j) ==
    IF j <= Len(s) /\ IsDigit(s[j]) THEN j + 1 + DigitCommaRun(s, j + 1)
    ELSE 0

\* the end (exclusive) of the match of \$\s*\d[\d,]* at position i, 0 when
\* there is no match
OnePriceEnd(s, i) ==
    IF ~At(s, i, <<"$">>) THEN 0 ELSE DigitsEnd(s, SkipWs(s, i + 1))

\* the end of the match of (?:\s*-\s*\$\s*\d[\d,]*)? at position a, 0 when
\* it matches nothing
SecondEnd(s, a) ==
    IF At(s, a, <<"-">>) THEN OnePriceEnd(s, SkipWs(s, a + 1)) ELSE 0

\* the end of a match whose first price ends at k and whose second price
\* ends at e
LongestEnd(k, e) == IF e # 0 THEN e ELSE k

\* the end of the match of _PRICE_RX whose first price ends at k
RangeEnd(s, k) ==
    IF k = 0 THEN 0 ELSE LongestEnd(k, SecondEnd(s, SkipWs(s, k)))

\* the end (exclusive) of the match of _PRICE_RX at position i, 0 when there
\* is no match: a price, then optionally a dash and a second price
PriceMatchEnd(s, i) == RangeEnd(s, OnePriceEnd(s, i))

\* the first position at or after i where _PRICE_RX matches, 0 when there is
\* none
FirstPrice(s, i) == FirstIn({j \in i..Len(s) : PriceMatchEnd(s, j) # 0})

\* [m.group(0) for m in _PRICE_RX.finditer(s)], scanning from position i
RECURSIVE PriceMatches(_, _)

\* the match at position j and the matches after it, none when j = 0
MatchesFrom(s, j) ==
    IF j = 0 THEN <<>>
    ELSE <<SubSeq(s, j, PriceMatchEnd(s, j) - 1)>>
         \o PriceMatches(s, PriceMatchEnd(s, j))

PriceMatches(s, i) == MatchesFrom(s, FirstPrice(s, i))

\* raw.split("-")[0]
BeforeDash(raw) ==
    IF \E i \in 1..Len(raw) : raw[i] = "-"
    THEN SubSeq(raw, 1, MinOf({i \in 1..Len(raw) : raw[i] = "-"}) - 1)
    ELSE raw

\* the upper bound of a range instead of the lower one
AfterDash(raw) ==
    IF \E i \in 1..Len(raw) : raw[i] = "-"
    THEN SubSeq(raw, MinOf({i \in 1..Len(raw) : raw[i] = "-"}) + 1, Len(raw))
    ELSE raw

\* int(re.sub(r"[^\d]", "", raw.split("-")[0])) for each match
LowPrices(raws) ==
    [i \in 1..Len(raws) |-> DigitsVal(OnlyDigits(BeforeDash(raws[i])))]

\* _prices_from_text(text)
PricesFromText(text) ==
    IF text = NoneStr THEN <<>>
    ELSE SelectSeq(LowPrices(PriceMatches(text, 1)), IsPlausibleRent)

\* re.search(r"(\d+)\s*(?:w1|w2|...)", s, re.I).group(1), with
\* (\d+(?:\.\d+)?) as the group when frac; <<>> when there is no match
NumBefore(s, frac, words) ==
    LET low == Lower(s)
        Tok(i) == LET rest == SubSeq(s, i, Len(s))
                  IN  SubSeq(rest, 1, IF frac THEN NumMatchLen(rest)
                                      ELSE DigitRun(rest))
        Hit(i) == /\ IsDigit(s[i])
                  /\ \E w \in words : At(low, SkipWs(s, i + Len(Tok(i))), w)
        hits == {i \in 1..Len(s) : Hit(i)}
    IN  IF hits = {} THEN <<>> ELSE Tok(MinOf(hits))

\* the same search with \b after the word (_BEDS_RX, _BATHS_RX)
NumBeforeWord(s, frac, words) ==
    LET low == Lower(s)
        Tok(i) == LET rest == SubSeq(s, i, Len(s))
                  IN  SubSeq(rest, 1, IF frac THEN NumMatchLen(rest)
                                      ELSE DigitRun(rest))
        Hit(i) == /\ IsDigit(s[i])
                  /\ \E w \in words :
                        LET j == SkipWs(s, i + Len(Tok(i)))
                        IN  /\ At(low, j, w)
                            /\ \/ j + Len(w) > Len(s)
                               \/ ~IsWordChar(s[j + Len(w)])
        hits == {i \in 1..Len(s) : Hit(i)}
    IN  IF hits = {} THEN <<>> ELSE Tok(MinOf(hits))

\* the alternatives of the searches for beds and baths, lower case
BedWords == {<<"b", "e", "d">>, <<"b", "r">>, <<"b", "e", "d", "r", "o", "o",
                                                "m">>}
BathWords == {<<"b", "a", "t", "h">>, <<"b", "a">>, <<"b", "a", "t", "h", "r",
                                                      "o", "o", "m">>}
BedBr == {<<"b", "e", "d">>, <<"b", "r">>}
BathBa == {<<"b", "a", "t", "h">>, <<"b", "a">>}
BedsRxWords == {<<"b", "e", "d">>, <<"b", "e", "d", "s">>, <<"b", "r">>, <<"b",
                                                                           "d">>}
BathsRxWords == {<<"b", "a", "t", "h">>, <<"b", "a", "t", "h", "s">>, <<"b",
                                                                        "a">>}

\* int(m.group(1)) if m else 0, for a search of beds
BedsInt(s, words) ==
    LET tok == NumBefore(s, FALSE, words)
    IN  IF tok = <<>> THEN 0 ELSE DigitsVal(tok)

\* float(m.group(1)) if m else 0.0, for a search of baths
BathsFloat(s, words) ==
    LET tok == NumBefore(s, TRUE, words)
    IN  IF tok = <<>> THEN Float(0, 0) ELSE NumVal(tok)

\* _parse_baths(text), for a text without fraction symbols
ParseBaths(text) == BathsFloat(text, BathWords)

\* 'studio' in s.lower()
HasStudio(s) == s # NoneStr /\ Contains(Lower(s), Studio)

----------------------------------------------------------------------------

(* parsers.py: the parsed document *)

(***************************************************************************)
(* A page (the BeautifulSoup tree of one html text) is a record:           *)
(*   title    the text of its <title>, NoneStr when it has none            *)
(*   items    its containers, in document order                            *)
(*   scripts  its <script> blocks, in document order                       *)
(*   comments its "Query Data" comment blocks, in document order           *)
(*   extra    its visible text outside the containers                      *)
(* A container is a record: sel is its tag and class, title, rent, beds,   *)
(* baths and addr are the texts of its heading, h3.rent, .feature.beds,    *)
(* .feature.baths and .address elements (NoneStr: no such element), body   *)
(* is its remaining visible text.                                          *)
(***************************************************************************)

\* the concatenation of a sequence of sequences
RECURSIVE Flatten(_)
Flatten(ss) == IF ss = <<>> THEN <<>> ELSE Head(ss) \o Flatten(Tail(ss))

\* get_text(" ", strip=True) over text nodes: the stripped, non-empty texts
\* joined by one space
RECURSIVE JoinSp(_)
JoinSp(parts) ==
    IF parts = <<>> THEN <<>>
    ELSE LET h == Head(parts)
             t == JoinSp(Tail(parts))
         IN  IF h = NoneStr \/ Strip(h) = <<>> THEN t
             ELSE IF t = <<>> THEN Strip(h)
             ELSE Strip(h) \o <<" ">> \o t

TextNodes(c) == <<c.title, c.rent, c.beds, c.baths, c.addr, c.body>>

\* _visible_text(element)
VisibleText(c) == JoinSp(TextNodes(c))

\* _visible_text(soup)
PageText(p) ==
    JoinSp(<<p.title>>
           \o Flatten([i \in 1..Len(p.items) |-> TextNodes(p.items[i])])
           \o <<p.extra>>)

\* soup.select(selector): the containers the selector matches
Select(p, kinds) == SelectSeq(p.items, LAMBDA c : c.sel \in kinds)

\* el.get_text(strip=True) if el else default
TextOr(el, default) == IF el = NoneStr THEN default ELSE Strip(el)

\* _title_or(soup, default)
TitleOr(p, default) == TextOr(p.title, default)

AddrMaxLen == 200

WestLafayette == <<"W", "e", "s", "t", " ", "L", "a", "f", "a", "y", "e", "t",
                   "t", "e">>
WestLafayetteIN == <<"W", "e", "s", "t", " ", "L", "a", "f", "a", "y", "e",
                     "t", "t", "e", ",", " ", "I", "N">>

\* re.search(r'\d+\s+\w+', t)
HasStreetNo(t) ==
    \E i \in 1..Len(t) :
        /\ IsDigit(t[i])
        /\ LET j == i + DigitsAt(t, i)
               k == SkipWs(t, j)
           IN  j <= Len(t) /\ IsSpace(t[j]) /\ k <= Len(t) /\ IsWordChar(t[k])

\* _extract_address(node, fallback) for a node without JSON-LD blocks and
\* without address meta tags: the first address element that looks like one
ExtractAddress(nodes, fallback) ==
    LET Good(c) == /\ c.addr # NoneStr
                   /\ LET t == Strip(c.addr)
                      IN  /\ HasStreetNo(t) \/ Contains(t, WestLafayette)
                          /\ Len(t) < AddrMaxLen
        good == SelectSeq(nodes, Good)
    IN  IF good = <<>> THEN fallback ELSE Strip(good[1].addr)

\* _json_in_script(soup): json.dumps of the data found, NoneStr for None.
\* A script block is [id, type, valid, dumps]: valid says json.loads accepts
\* its text, and then the text is a JSON object and dumps its json.dumps.
JsonInScript(p) ==
    LET S == p.scripts
        next  == {i \in 1..Len(S) : S[i].id = "__NEXT_DATA__"}
        typed == {i \in 1..Len(S) : S[i].type = "application/json"
                                    /\ S[i].valid}
        any   == {i \in 1..Len(S) : S[i].valid}
    IN  IF next # {} /\ S[MinOf(next)].valid THEN S[MinOf(next)].dumps
        ELSE IF typed # {} THEN S[MinOf(typed)].dumps
        ELSE IF any # {} THEN S[MinOf(any)].dumps
        ELSE NoneStr

\* what a strategy or a tier gives: a list of records, or an exception
Ok(recs) == [raised |-> FALSE, recs |-> recs]
Raised == [raised |-> TRUE, recs |-> <<>>]

\* if rec: results.append(rec)
Appended(rs) == SelectSeq(rs, LAMBDA r : r # NoRecord)

\* the loop over the containers of a tier: an exception in one container
\* leaves the loop and the function
Gather(rs) ==
    IF \E i \in 1..Len(rs) : rs[i].raised THEN Raised
    ELSE Ok(Flatten([i \in 1..Len(rs) |-> rs[i].recs]))

\* for p in prices: rec = _mk_record(..., p, ...); if rec: results.append(rec)
RecordsFor(url, company, title, prices, beds, baths, address) ==
    Appended([i \in 1..Len(prices) |->
            mk_record(url, company, title, PyInt(prices[i]), beds, baths,
                      address)])

\* the default values of the parameters beds and baths of _mk_record
NoBeds == PyInt(0)
NoBaths == PyFloat(Float(0, 0))

\* a tier that scans json.dumps of the embedded data
JsonTier(url, company, p, title, address) ==
    LET data == JsonInScript(p)
    IN  IF data = NoneStr \/ data = <<"{", "}">> THEN Ok(<<>>)
        ELSE Ok(RecordsFor(url, company, TitleOr(p, title),
                           PricesFromText(data), NoBeds, NoBaths, address))

\* a tier that scans the visible text of the whole page
TextTier(url, company, p, title, address) ==
    Ok(RecordsFor(url, company, TitleOr(p, title),
                  PricesFromText(PageText(p)), NoBeds, NoBaths, address))

\* every tier runs, and the records of all of them are returned
RunAll(tiers) ==
    [kind |-> "all", raised |-> \E i \in 1..Len(tiers) : tiers[i].raised,
     recs |-> Flatten([i \in 1..Len(tiers) |-> tiers[i].recs])]

\* the tiers of a strategy, in the order of the code: the function returns
\* what the first tier that raises or gives a record gives, and what the
\* last tier gives when there is no such tier
Cascade(tiers) ==
    LET hits == {i \in 1..Len(tiers) :
                    tiers[i].raised \/ tiers[i].recs # <<>>}
    IN  IF hits = {} THEN tiers[Len(tiers)] ELSE tiers[MinOf(hits)]

----------------------------------------------------------------------------

(* parsers.py: the site strategies *)

\* one tier of a strategy: its kind and what it gives
Tier(kind, res) == [kind |-> kind, raised |-> res.raised, recs |-> res.recs]

\* what the strategy returns: the outcome of the cascade of its tiers
Returned(tiers) ==
    LET t == Cascade(tiers) IN [raised |-> t.raised, recs |-> t.recs]

\* re.match(r'^([^\n]+)', txt).group(1), <<>> when there is no match
FirstLine(txt) ==
    IF \E i \in 1..Len(txt) : txt[i] = "\n"
    THEN SubSeq(txt, 1, MinOf({i \in 1..Len(txt) : txt[i] = "\n"}) - 1)
    ELSE txt

\* re.search(r'(?:^|[,\s])(\d+)\s*Beds?(?:[,\s]|$)', s, re.I).group(1)
GraniteBedsTok(s) ==
    LET low == Lower(s)
        EndOk(k) == k > Len(s) \/ s[k] = "," \/ IsSpace(s[k])
        Hit(i) == /\ IsDigit(s[i])
                  /\ i = 1 \/ s[i - 1] = "," \/ IsSpace(s[i - 1])
                  /\ LET j == SkipWs(s, i + DigitsAt(s, i))
                     IN  \/ At(low, j, <<"b", "e", "d", "s">>) /\ EndOk(j + 4)
                         \/ At(low, j, <<"b", "e", "d">>) /\ EndOk(j + 3)
        hits == {i \in 1..Len(s) : Hit(i)}
    IN  IF hits = {} THEN <<>>
        ELSE SubSeq(s, MinOf(hits), MinOf(hits) + DigitsAt(s, MinOf(hits)) - 1)

\* re.search(r'\$\s*([\d,]+)\s*/\s*month', s).group(1), NoneStr when there
\* is no match
MonthPrice(s) ==
    LET Grp(i) == SkipWs(s, i + 1)
        Hit(i) == /\ At(s, i, <<"$">>)
                  /\ LET j == Grp(i)
                         n == DigitCommaRun(s, j)
                         a == SkipWs(s, j + n)
                     IN  /\ n >= 1
                         /\ At(s, a, <<"/">>)
                         /\ At(s, SkipWs(s, a + 1), <<"m", "o", "n", "t",
                                                      "h">>)
        hits == {i \in 1..Len(s) : Hit(i)}
    IN  IF hits = {} THEN NoneStr
        ELSE LET j == Grp(MinOf(hits))
             IN  SubSeq(s, j, j + DigitCommaRun(s, j) - 1)

GraniteCo == <<"G", "r", "a", "n", "i", "t", "e", " ", "S", "t", "u", "d", "e",
               "n", "t", " ", "L", "i", "v", "i", "n", "g">>
GraniteAddr == <<"G", "r", "a", "n", "i", "t", "e", " ", "S", "t", "u", "d",
                 "e", "n", "t", " ", "L", "i", "v", "i", "n", "g", ",", " ",
                 "W", "e", "s", "t", " ", "L", "a", "f", "a", "y", "e", "t",
                 "t", "e", ",", " ", "I", "N">>

\* the body of the loop of parse_granite for one item
GraniteItem(url, item, address) ==
    LET txt   == VisibleText(item)
        low   == Lower(txt)
        title == IF FirstLine(txt) = <<>> THEN <<"G", "r", "a", "n", "i", "t",
                                                 "e", " ", "P", "r", "o", "p",
                                                 "e", "r", "t", "y">>
                 ELSE FirstLine(txt)
        tok   == GraniteBedsTok(txt)
        beds  == IF HasStudio(txt) \/ tok = <<>> THEN 0 ELSE DigitsVal(tok)
        grp   == MonthPrice(txt)
    IN  IF Contains(low, <<"n", "o", "t", " ", "a", "v", "a", "i", "l", "a",
                           "b", "l", "e">>) /\ Contains(low, <<"e", "a", "r",
                                                               "l", "y", " ",
                                                               "i", "n", "q",
                                                               "u", "i", "r",
                                                               "y">>)
        THEN Ok(<<>>)
        ELSE IF grp = NoneStr THEN Ok(<<>>)
        \* int('') raises ValueError
        ELSE IF OnlyDigits(grp) = <<>> THEN Raised
        ELSE Ok(Appended(<<mk_record(url, GraniteCo, title,
                                     PyInt(DigitsVal(OnlyDigits(grp))),
                                     PyInt(beds), PyFloat(ParseBaths(txt)),
                                     address)>>))

GraniteTiers(url, p) ==
    LET sel == Select(p, {"a.listings-list__item"})
        address == ExtractAddress(p.items, GraniteAddr)
    IN  << Tier("structured",
                Gather([i \in 1..Len(sel) |->
                            GraniteItem(url, sel[i], address)])) >>

parse_granite(url, p) == Returned(GraniteTiers(url, p))

\* re.search(r"(\d+\.?\d?)", s).group(1), <<>> when there is no match
BathTok(s) ==
    IF \A i \in 1..Len(s) : ~IsDigit(s[i]) THEN <<>>
    ELSE LET i == MinOf({k \in 1..Len(s) : IsDigit(s[k])})
             e == i + DigitsAt(s, i)
             f == IF At(s, e, <<".">>) THEN e + 1 ELSE e
             g == IF f > e /\ f <= Len(s) /\ IsDigit(s[f]) THEN f + 1 ELSE f
         IN  SubSeq(s, i, g - 1)

\* float(tok) for a match of \d+\.?\d?
BathTokVal(tok) ==
    IF tok[Len(tok)] = "." THEN NumVal(SubSeq(tok, 1, Len(tok) - 1))
    ELSE NumVal(tok)

\* the body of the loop over .listing-item of an AppFolio site; convert says
\* that the matches go through int() and float() before _mk_record
AppFolioItem(url, c, company, unit, place, convert) ==
    LET prices == PricesFromText(Strip(c.rent))
        btok == IF c.beds = NoneStr THEN <<>> ELSE FirstInt(c.beds)
        atok == IF c.baths = NoneStr THEN <<>> ELSE BathTok(c.baths)
        beds == IF btok = <<>> THEN PyInt(0)
                ELSE IF convert THEN PyInt(DigitsVal(btok))
                ELSE PyStr(btok)
        baths == IF atok = <<>>
                 THEN (IF convert THEN PyFloat(Float(0, 0)) ELSE PyInt(0))
                 ELSE IF convert THEN PyFloat(BathTokVal(atok))
                 ELSE PyStr(atok)
    IN  IF c.rent = NoneStr THEN Ok(<<>>)
        ELSE IF prices = <<>> THEN Ok(<<>>)
        ELSE Ok(Appended(<<mk_record(url, company, TextOr(c.addr, unit),
                                     PyInt(prices[1]), beds, baths,
                                     TextOr(c.addr, place))>>))

\* the loop over soup.select(".listing-item") of an AppFolio site
AppFolioTier(url, p, company, unit, place, convert) ==
    LET sel == Select(p, {"div.listing-item"})
    IN  Tier("structured",
             Gather([i \in 1..Len(sel) |->
                        AppFolioItem(url, sel[i], company, unit, place,
                                     convert)]))

WeidaCo == <<"W", "e", "i", "d", "a", " ", "A", "p", "a", "r", "t", "m", "e",
             "n", "t", "s">>
WeidaUnit == <<"W", "e", "i", "d", "a", " ", "U", "n", "i", "t">>
WeidaAddr == <<"W", "e", "i", "d", "a", " ", "A", "p", "a", "r", "t", "m", "e",
               "n", "t", "s", ",", " ", "W", "e", "s", "t", " ", "L", "a", "f",
               "a", "y", "e", "t", "t", "e", ",", " ", "I", "N">>

WeidaTiers(url, p) ==
    << AppFolioTier(url, p, WeidaCo, WeidaUnit, WeidaAddr, FALSE) >>

parse_weida(url, p) == Returned(WeidaTiers(url, p))

MuinzerCo == <<"M", "u", "i", "n", "z", "e", "r">>
MuinzerUnit == <<"M", "u", "i", "n", "z", "e", "r", " ", "U", "n", "i", "t">>
MuinzerAddr == <<"M", "u", "i", "n", "z", "e", "r", " ", "A", "p", "a", "r",
                 "t", "m", "e", "n", "t", "s", ",", " ", "W", "e", "s", "t",
                 " ", "L", "a", "f", "a", "y", "e", "t", "t", "e", ",", " ",
                 "I", "N">>

MuinzerTiers(url, p) ==
    << AppFolioTier(url, p, MuinzerCo, MuinzerUnit, MuinzerAddr, TRUE),
       Tier("embedded", JsonTier(url, MuinzerCo, p, MuinzerUnit, <<>>)) >>

parse_muinzer(url, p) == Returned(MuinzerTiers(url, p))

\* re.search(r'\$\s*([\d,]+)\s*-\s*\$\s*([\d,]+)', s).group(1), NoneStr when
\* there is no match
RangeLow(s) ==
    LET Grp(i) == SkipWs(s, i + 1)
        Hit(i) == /\ At(s, i, <<"$">>)
                  /\ LET j == Grp(i)
                         n == DigitCommaRun(s, j)
                         a == SkipWs(s, j + n)
                         b == SkipWs(s, a + 1)
                     IN  /\ n >= 1
                         /\ At(s, a, <<"-">>)
                         /\ At(s, b, <<"$">>)
                         /\ DigitCommaRun(s, SkipWs(s, b + 1)) >= 1
        hits == {i \in 1..Len(s) : Hit(i)}
    IN  IF hits = {} THEN NoneStr
        ELSE LET j == Grp(MinOf(hits))
             IN  SubSeq(s, j, j + DigitCommaRun(s, j) - 1)

AmericanCo == <<"A", "m", "e", "r", "i", "c", "a", "n", " ", "C", "a", "m",
                "p", "u", "s">>
AmericanUnit == <<"A", "m", "e", "r", "i", "c", "a", "n", " ", "C", "a", "m",
                  "p", "u", "s", " ", "U", "n", "i", "t">>
AmericanAddr == <<"A", "m", "e", "r", "i", "c", "a", "n", " ", "C", "a", "m",
                  "p", "u", "s", ",", " ", "W", "e", "s", "t", " ", "L", "a",
                  "f", "a", "y", "e", "t", "t", "e", ",", " ", "I", "N">>

\* the body of the loop of parse_american_campus for one .property card
AmericanItem(url, c, address) ==
    LET txt == VisibleText(c)
        grp == RangeLow(txt)
        prices == PricesFromText(txt)
        One(price) ==
            Ok(Appended(<<mk_record(url, AmericanCo,
                                    TextOr(c.title, AmericanUnit),
                                    PyInt(price),
                                    PyInt(BedsInt(txt, BedBr)),
                                    PyFloat(BathsFloat(txt, BathBa)),
                                    address)>>))
    IN  IF grp # NoneStr
        \* int('') raises ValueError
        THEN (IF OnlyDigits(grp) = <<>> THEN Raised
              ELSE One(DigitsVal(OnlyDigits(grp))))
        ELSE IF prices = <<>> THEN Ok(<<>>)
        ELSE One(prices[1])

AmericanTiers(url, p) ==
    LET sel == Select(p, {"div.property"})
        address == ExtractAddress(p.items, AmericanAddr)
    IN  << Tier("structured",
                Gather([i \in 1..Len(sel) |->
                            AmericanItem(url, sel[i], address)])),
           Tier("embedded",
                JsonTier(url, AmericanCo, p, AmericanUnit, address)),
           Tier("text", TextTier(url, AmericanCo, p, AmericanUnit, address)) >>

parse_american_campus(url, p) == Returned(AmericanTiers(url, p))

----------------------------------------------------------------------------

(* parsers.py: the strategies of the floor-plan sites *)

\* baths = _parse_baths(txt); if baths == 0.0: baths = 1.0
StudioBaths(txt) ==
    IF ParseBaths(txt) = Float(0, 0) THEN Float(1, 0) ELSE ParseBaths(txt)

\* the body of the loop over the unit containers of redpoint, alight and
\* yugo; studio says that the strategy looks for the word studio
UnitItem(url, c, company, unit, address, studio) ==
    LET txt == VisibleText(c)
        prices == PricesFromText(txt)
        title == TextOr(c.title, unit)
        isStudio == studio /\ (HasStudio(txt) \/ HasStudio(title))
        beds == IF isStudio THEN 0 ELSE BedsInt(txt, BedWords)
        baths == IF isStudio THEN StudioBaths(txt) ELSE ParseBaths(txt)
    IN  IF prices = <<>> THEN Ok(<<>>)
        ELSE Ok(RecordsFor(url, company, title, prices, PyInt(beds),
                           PyFloat(baths), address))

UnitTier(url, p, kinds, company, unit, address, studio) ==
    LET sel == Select(p, kinds)
    IN  Tier("structured",
             Gather([i \in 1..Len(sel) |->
                        UnitItem(url, sel[i], company, unit, address,
                                 studio)]))

RedpointCo == <<"R", "e", "d", "p", "o", "i", "n", "t", " ", "W", "e", "s",
                "t", " ", "L", "a", "f", "a", "y", "e", "t", "t", "e">>
RedpointUnit == <<"R", "e", "d", "p", "o", "i", "n", "t", " ", "U", "n", "i",
                  "t">>
RedpointAddr == <<"2", "9", "0", "0", " ", "S", "n", "o", "w", "d", "r", "o",
                  "p", " ", "D", "r", ",", " ", "W", "e", "s", "t", " ", "L",
                  "a", "f", "a", "y", "e", "t", "t", "e", ",", " ", "I", "N">>

RedpointTiers(url, p) ==
    LET address == ExtractAddress(p.items, RedpointAddr)
    IN  << UnitTier(url, p, {"div.floorplan"}, RedpointCo, RedpointUnit,
                    address, FALSE),
           Tier("text", TextTier(url, RedpointCo, p, RedpointUnit, address)) >>

parse_redpoint(url, p) == Returned(RedpointTiers(url, p))

AlightCo == <<"A", "l", "i", "g", "h", "t", " ", "W", "e", "s", "t", " ", "L",
              "a", "f", "a", "y", "e", "t", "t", "e">>
AlightUnit == <<"A", "l", "i", "g", "h", "t", " ", "U", "n", "i", "t">>
AlightAddr == <<"2", "2", "4", "3", " ", "S", "a", "g", "a", "m", "o", "r",
                "e", " ", "P", "a", "r", "k", "w", "a", "y", " ", "W", "e",
                "s", "t", ",", " ", "W", "e", "s", "t", " ", "L", "a", "f",
                "a", "y", "e", "t", "t", "e", ",", " ", "I", "N", " ", "4",
                "7", "9", "0", "6">>

AlightTiers(url, p) ==
    LET address == ExtractAddress(p.items, AlightAddr)
    IN  << UnitTier(url, p, {"div.floorplan"}, AlightCo, AlightUnit, address,
                    TRUE),
           Tier("text", TextTier(url, AlightCo, p, AlightUnit, address)) >>

parse_alight(url, p) == Returned(AlightTiers(url, p))

YugoCo == <<"Y", "u", "g", "o">>
YugoUnit == <<"Y", "u", "g", "o", " ", "U", "n", "i", "t">>
YugoAddr == <<"Y", "u", "g", "o", " ", "W", "e", "s", "t", " ", "L", "a", "f",
              "a", "y", "e", "t", "t", "e", ",", " ", "W", "e", "s", "t", " ",
              "L", "a", "f", "a", "y", "e", "t", "t", "e", ",", " ", "I", "N">>

\* the elements soup.select("article") matches
Articles == {"article", "article.listing-card"}

YugoTiers(url, p) ==
    LET address == ExtractAddress(p.items, YugoAddr)
    IN  << UnitTier(url, p, Articles, YugoCo, YugoUnit, address, TRUE),
           Tier("embedded", JsonTier(url, YugoCo, p, YugoUnit, address)),
           Tier("text", TextTier(url, YugoCo, p, YugoUnit, address)) >>

parse_yugo(url, p) == Returned(YugoTiers(url, p))

BkCo == <<"B", "K", " ", "M", "a", "n", "a", "g", "e", "m", "e", "n", "t">>
BkUnit == <<"B", "K", " ", "L", "i", "s", "t", "i", "n", "g">>
BkAddr == <<"B", "K", " ", "M", "a", "n", "a", "g", "e", "m", "e", "n", "t",
            ",", " ", "W", "e", "s", "t", " ", "L", "a", "f", "a", "y", "e",
            "t", "t", "e", ",", " ", "I", "N">>

BkTiers(url, p) ==
    << AppFolioTier(url, p, BkCo, BkUnit, BkAddr, TRUE),
       Tier("text", TextTier(url, BkCo, p, BkUnit, <<>>)) >>

parse_bk(url, p) == Returned(BkTiers(url, p))

\* re.search(r'(\d+)\s*\|\s*(\d+(?:\.\d+)?)', s): the two groups, <<>> when
\* there is no match
PipeMatch(s) ==
    LET Second(i) == SkipWs(s, SkipWs(s, i + DigitsAt(s, i)) + 1)
        Hit(i) == /\ IsDigit(s[i])
                  /\ At(s, SkipWs(s, i + DigitsAt(s, i)), <<"|">>)
                  /\ Second(i) <= Len(s)
                  /\ IsDigit(s[Second(i)])
        hits == {i \in 1..Len(s) : Hit(i)}
    IN  IF hits = {} THEN <<>>
        ELSE LET i == MinOf(hits)
                 rest == SubSeq(s, Second(i), Len(s))
             IN  << SubSeq(s, i, i + DigitsAt(s, i) - 1),
                    SubSeq(rest, 1, NumMatchLen(rest)) >>

WabashCo == <<"W", "a", "b", "a", "s", "h", " ", "L", "a", "n", "d", "i", "n",
              "g">>
WabashUnit == <<"W", "a", "b", "a", "s", "h", " ", "U", "n", "i", "t">>
WabashListing == <<"W", "a", "b", "a", "s", "h", " ", "L", "i", "s", "t", "i",
                   "n", "g">>
WabashAddr == <<"W", "a", "b", "a", "s", "h", " ", "L", "a", "n", "d", "i",
                "n", "g", ",", " ", "W", "e", "s", "t", " ", "L", "a", "f",
                "a", "y", "e", "t", "t", "e", ",", " ", "I", "N">>

\* the body of the loop of parse_wabash for one unit container
WabashItem(url, c, address) ==
    LET txt == VisibleText(c)
        prices == PricesFromText(txt)
        title == TextOr(c.title, WabashUnit)
        pipe == PipeMatch(txt)
        beds0 == IF pipe # <<>> THEN DigitsVal(pipe[1])
                 ELSE BedsInt(txt, BedWords)
        baths0 == IF pipe # <<>> THEN NumVal(pipe[2]) ELSE ParseBaths(txt)
        isStudio == HasStudio(txt) \/ HasStudio(title)
        beds == IF isStudio THEN 0 ELSE beds0
        baths == IF isStudio /\ baths0 = Float(0, 0) THEN Float(1, 0)
                 ELSE baths0
    IN  IF prices = <<>> THEN Ok(<<>>)
        ELSE Ok(RecordsFor(url, WabashCo, title, prices, PyInt(beds),
                           PyFloat(baths), address))

WabashTiers(url, p) ==
    LET sel == Select(p, {"div.floorp-unit-container", "div.floor-plan-box"})
        address == ExtractAddress(p.items, WabashAddr)
    IN  << Tier("structured",
                Gather([i \in 1..Len(sel) |->
                            WabashItem(url, sel[i], address)])),
           Tier("text",
                TextTier(url, WabashCo, p, WabashListing, address)) >>

parse_wabash(url, p) == Returned(WabashTiers(url, p))

----------------------------------------------------------------------------

(* parsers.py: the strategies of ever, purdue, rise and fairway *)

EverMinLen == 20
EverMaxLen == 1000

EverCo == <<"E", "V", "E", "R", " ", "W", "e", "s", "t", " ", "L", "a", "f",
            "a", "y", "e", "t", "t", "e">>
EverUnit == <<"E", "V", "E", "R", " ", "U", "n", "i", "t">>
EverAddr == <<"1", "4", "7", " ", "W", ".", " ", "W", "o", "o", "d", " ", "S",
              "t", "r", "e", "e", "t", ",", " ", "W", "e", "s", "t", " ", "L",
              "a", "f", "a", "y", "e", "t", "t", "e", ",", " ", "I", "N", " ",
              "4", "7", "9", "0", "6">>

\* the elements [class*='floor'], [class*='plan'], [class*='unit'] matches
EverKinds == {"div.floorplan", "div.floorp-unit-container",
              "div.floor-plan-box", "div.unit-card"}

\* the body of the first loop of parse_ever for one element
EverItem(url, c, address) ==
    LET txt == VisibleText(c)
        prices == PricesFromText(txt)
        beds0 == BedsInt(txt, BedWords)
        baths0 == BathsFloat(txt, BathBa)
        beds == IF HasStudio(txt) THEN 0 ELSE beds0
        baths == IF HasStudio(txt) /\ baths0 = Float(0, 0) THEN Float(1, 0)
                 ELSE baths0
    IN  IF Len(txt) < EverMinLen \/ Len(txt) > EverMaxLen THEN Ok(<<>>)
        ELSE IF prices = <<>> THEN Ok(<<>>)
        ELSE IF beds > 0 \/ baths.m > 0
        THEN Ok(RecordsFor(url, EverCo, TextOr(c.title, EverUnit), prices,
                           PyInt(beds), PyFloat(baths), address))
        ELSE Ok(<<>>)

\* the index of the first "$" at or after i, 0 when there is none
FirstDollar(s, i) ==
    IF \E k \in i..Len(s) : s[k] = "$"
    THEN MinOf({k \in i..Len(s) : s[k] = "$"})
    ELSE 0

\* the match at position i of
\* (\d+)\s*Bed[^$]*?(\d+(?:\.\d+)?)\s*Bath[^$]*?\$\s*([\d,]+) with re.I:
\* its end (exclusive) and its groups, end = 0 when there is no match
EverMatchAt(s, i) ==
    LET low == Lower(s)
        none == [end |-> 0, beds |-> <<>>, baths |-> <<>>, price |-> <<>>]
        j == SkipWs(s, i + DigitsAt(s, i))
        k == FirstDollar(s, j + 3)
        Tok(m) == LET rest == SubSeq(s, m, Len(s))
                  IN  SubSeq(rest, 1, NumMatchLen(rest))
        \* a number followed by Bath, all of it before the "$"
        Bath(m) == /\ IsDigit(s[m])
                   /\ LET q == SkipWs(s, m + Len(Tok(m)))
                      IN  At(low, q, <<"b", "a", "t", "h">>) /\ q + 3 < k
        baths == {m \in (j + 3)..(k - 1) : Bath(m)}
        c == SkipWs(s, k + 1)
        n == DigitCommaRun(s, c)
    IN  IF ~IsDigit(s[i]) \/ ~At(low, j, <<"b", "e", "d">>) THEN none
        ELSE IF k = 0 \/ baths = {} \/ n = 0 THEN none
        ELSE [end |-> c + n,
              beds |-> SubSeq(s, i, i + DigitsAt(s, i) - 1),
              baths |-> Tok(MinOf(baths)),
              price |-> SubSeq(s, c, c + n - 1)]

\* the first position at or after i where the pattern matches, 0 when there
\* is none
FirstEver(s, i) == FirstIn({j \in i..Len(s) : EverMatchAt(s, j).end # 0})

\* re.findall(pattern, s, re.I), scanning from position i
RECURSIVE EverMatches(_, _)

\* the match at position j and the matches after it, none when j = 0
EverFrom(s, j) ==
    IF j = 0 THEN <<>>
    ELSE <<EverMatchAt(s, j)>> \o EverMatches(s, EverMatchAt(s, j).end)

EverMatches(s, i) == EverFrom(s, FirstEver(s, i))

\* the second loop of parse_ever, over the matches in the full text
EverText(url, p, address) ==
    LET ms == EverMatches(PageText(p), 1)
    IN  \* int('') raises ValueError
        IF \E i \in 1..Len(ms) : OnlyDigits(ms[i].price) = <<>> THEN Raised
        ELSE Ok(Appended([i \in 1..Len(ms) |->
                    mk_record(url, EverCo, EverUnit,
                              PyInt(DigitsVal(OnlyDigits(ms[i].price))),
                              PyInt(DigitsVal(ms[i].beds)),
                              PyFloat(NumVal(ms[i].baths)), address)]))

EverTiers(url, p) ==
    LET sel == Select(p, EverKinds)
        address == ExtractAddress(p.items, EverAddr)
    IN  << Tier("structured",
                Gather([i \in 1..Len(sel) |->
                            EverItem(url, sel[i], address)])),
           Tier("text", EverText(url, p, address)) >>

parse_ever(url, p) == Returned(EverTiers(url, p))

\* re.search(r'(?:Studio|Bed|\d+)\s*-\s*\d+\s*Bed', s, re.I)
BedRange(s) ==
    LET low == Lower(s)
        Rest(e) == LET a == SkipWs(s, e)
                       b == SkipWs(s, a + 1)
                   IN  /\ At(s, a, <<"-">>)
                       /\ b <= Len(s)
                       /\ IsDigit(s[b])
                       /\ At(low, SkipWs(s, b + DigitsAt(s, b)), <<"b", "e",
                                                                   "d">>)
    IN  \E i \in 1..Len(s) :
            \/ At(low, i, <<"s", "t", "u", "d", "i", "o">>) /\ Rest(i + 6)
            \/ At(low, i, <<"b", "e", "d">>) /\ Rest(i + 3)
            \/ IsDigit(s[i]) /\ Rest(i + DigitsAt(s, i))

PurdueMaxPrices == 5

PurdueCo == <<"P", "u", "r", "d", "u", "e", " ", "O", "f", "f", "-", "C", "a",
              "m", "p", "u", "s", " ", "H", "o", "u", "s", "i", "n", "g">>
PurdueUnit == <<"P", "u", "r", "d", "u", "e", " ", "O", "f", "f", "-", "C",
                "a", "m", "p", "u", "s", " ", "U", "n", "i", "t">>

\* the body of the loop of parse_purdue for one listing card
PurdueCard(url, c) ==
    LET txt == VisibleText(c)
        prices == PricesFromText(txt)
        beds == IF HasStudio(txt) THEN 0 ELSE BedsInt(txt, BedWords)
        tok == NumBefore(txt, TRUE, BathBa)
        baths == IF ParseBaths(txt) # Float(0, 0) THEN ParseBaths(txt)
                 ELSE IF tok # <<>> THEN NumVal(tok)
                 ELSE IF beds > 0 THEN Float(1, 0)
                 ELSE Float(0, 0)
    IN  IF prices = <<>> \/ BedRange(txt) THEN Ok(<<>>)
        ELSE Ok(RecordsFor(url, PurdueCo, TextOr(c.title, PurdueUnit),
                           prices, PyInt(beds), PyFloat(baths),
                           ExtractAddress(<<c>>, WestLafayetteIN)))

\* the body of the fallback loop of parse_purdue for one article
PurdueArticle(url, p, c) ==
    LET txt == VisibleText(c)
        prices == PricesFromText(txt)
        beds == BedsInt(txt, BedBr)
        baths == IF ParseBaths(txt) = Float(0, 0) /\ beds > 0
                 THEN Float(1, 0)
                 ELSE ParseBaths(txt)
    IN  IF prices = <<>> \/ Len(prices) > PurdueMaxPrices \/ BedRange(txt)
        THEN Ok(<<>>)
        ELSE Ok(RecordsFor(url, PurdueCo, TitleOr(p, PurdueUnit), prices,
                           PyInt(beds), PyFloat(baths),
                           ExtractAddress(<<c>>, WestLafayetteIN)))

PurdueTiers(url, p) ==
    LET cards == Select(p, {"div.listing-card", "article.listing-card"})
        arts  == Select(p, Articles)
    IN  << Tier("structured",
                Gather([i \in 1..Len(cards) |-> PurdueCard(url, cards[i])])),
           Tier("structured",
                Gather([i \in 1..Len(arts) |->
                            PurdueArticle(url, p, arts[i])])) >>

parse_purdue(url, p) == Returned(PurdueTiers(url, p))

RiseCo == <<"R", "I", "S", "E", " ", "o", "n", " ", "C", "h", "a", "u", "n",
            "c", "e", "y">>
RiseUnit == <<"R", "I", "S", "E", " ", "U", "n", "i", "t">>
RiseListing == <<"R", "I", "S", "E", " ", "L", "i", "s", "t", "i", "n", "g">>
RiseAddr == <<"R", "I", "S", "E", " ", "o", "n", " ", "C", "h", "a", "u", "n",
              "c", "e", "y", ",", " ", "W", "e", "s", "t", " ", "L", "a", "f",
              "a", "y", "e", "t", "t", "e", ",", " ", "I", "N">>

\* the body of the loop of parse_rise for one element
RiseItem(url, c) ==
    LET txt == VisibleText(c)
        prices == PricesFromText(txt)
        btok == NumBeforeWord(txt, FALSE, BedsRxWords)
        atok == NumBeforeWord(txt, TRUE, BathsRxWords)
    IN  IF prices = <<>> THEN Ok(<<>>)
        ELSE Ok(Appended(<<mk_record(url, RiseCo, TextOr(c.title, RiseUnit),
                                     PyInt(prices[1]),
                                     IF btok = <<>> THEN PyInt(0)
                                     ELSE PyStr(btok),
                                     IF atok = <<>> THEN PyInt(0)
                                     ELSE PyStr(atok),
                                     ExtractAddress(<<c>>, RiseAddr))>>))

RiseTiers(url, p) ==
    LET sel == Select(p, {"div.listing-item", "div.unit-card",
                          "div.floorplan", "div.property-card"})
    IN  << Tier("structured",
                Gather([i \in 1..Len(sel) |-> RiseItem(url, sel[i])])),
           Tier("text", TextTier(url, RiseCo, p, RiseListing,
                                 ExtractAddress(p.items, RiseAddr))) >>

parse_rise(url, p) == Returned(RiseTiers(url, p))

FairwayCo == <<"F", "a", "i", "r", "w", "a", "y", " ", "A", "p", "a", "r", "t",
               "m", "e", "n", "t", "s">>
FairwayUnit == <<"F", "a", "i", "r", "w", "a", "y", " ", "U", "n", "i", "t">>
FairwayAddr == <<"F", "a", "i", "r", "w", "a", "y", " ", "A", "p", "a", "r",
                 "t", "m", "e", "n", "t", "s", ",", " ", "W", "e", "s", "t",
                 " ", "L", "a", "f", "a", "y", "e", "t", "t", "e", ",", " ",
                 "I", "N">>

FairwayTiers(url, p) ==
    << AppFolioTier(url, p, FairwayCo, FairwayUnit, FairwayAddr, FALSE),
       Tier("text", TextTier(url, FairwayCo, p, FairwayUnit,
                             ExtractAddress(p.items, FairwayAddr))) >>

parse_fairway(url, p) == Returned(FairwayTiers(url, p))

----------------------------------------------------------------------------

(* parsers.py: parse_smartdigs, parse_default, the registry, entry points *)

(***************************************************************************)
(* A "Query Data" comment block is [valid, listings]: valid says that      *)
(* json.loads accepts the text between its brackets, listings are the      *)
(* elements of the decoded list.  A listing is [dict, bedrooms, bathrooms, *)
(* marketrent, unit, street1]; dict says the element is a JSON object, the *)
(* other fields are JSON values: Absent (no such key), PyNone (null), an   *)
(* int, a float or a str.                                                  *)
(***************************************************************************)

Absent == [k |-> "absent"]

\* listing.get(key, default)
GetOr(v, default) == IF v = Absent THEN default ELSE v

NoError == "none"

\* int(x): the value, or the exception it raises
IntOf(x) ==
    CASE x.k = "int"   -> [err |-> NoError, v |-> x.v]
      [] x.k = "float" -> [err |-> NoError, v |-> x.v.m \div Pow10(x.v.e)]
      [] x.k = "str"   ->
            LET t == Strip(x.v)
            IN  IF t # <<>> /\ DigitRun(t) = Len(t)
                THEN [err |-> NoError, v |-> DigitsVal(t)]
                ELSE [err |-> "ValueError", v |-> 0]
      [] OTHER         -> [err |-> "TypeError", v |-> 0]

\* float(x): the value, or the exception it raises; a text is a number when
\* it is digits with an optional fraction
FloatOf(x) ==
    CASE x.k = "int"   -> [err |-> NoError, v |-> Float(x.v, 0)]
      [] x.k = "float" -> [err |-> NoError, v |-> x.v]
      [] x.k = "str"   ->
            LET t == Strip(x.v)
            IN  IF t # <<>> /\ NumMatchLen(t) = Len(t)
                THEN [err |-> NoError, v |-> NumVal(t)]
                ELSE [err |-> "ValueError", v |-> Float(0, 0)]
      [] OTHER         -> [err |-> "TypeError", v |-> Float(0, 0)]

\* _prices_from_text(x) for a JSON value: _PRICE_RX.finditer(x or "")
\* raises TypeError for a number other than zero
PricesOf(x) ==
    CASE x.k = "str"   -> [err |-> NoError, v |-> PricesFromText(x.v)]
      [] x.k = "none"  -> [err |-> NoError, v |-> <<>>]
      [] x.k = "int"   -> [err |-> IF x.v = 0 THEN NoError ELSE "TypeError",
                           v |-> <<>>]
      [] x.k = "float" -> [err |-> IF x.v.m = 0 THEN NoError
                                   ELSE "TypeError",
                           v |-> <<>>]

SmartCo == <<"S", "m", "a", "r", "t", "D", "i", "g", "s">>
SmartProperty == <<"S", "m", "a", "r", "t", "D", "i", "g", "s", " ", "P", "r",
                   "o", "p", "e", "r", "t", "y">>

\* the body of the loop over the listings of one block: the records it
\* appends, or the exception it raises
SmartListing(url, l) ==
    LET beds   == IntOf(GetOr(l.bedrooms, PyInt(0)))
        baths  == FloatOf(GetOr(l.bathrooms, PyFloat(Float(0, 0))))
        prices == PricesOf(GetOr(l.marketrent, PyStr(<<>>)))
        unit   == GetOr(l.unit, PyStr(SmartProperty))
        title  == IF unit = PyNone \/ Strip(unit.v) = <<>>
                  THEN (IF l.street1 # <<>> THEN l.street1
                        ELSE SmartProperty)
                  ELSE unit.v
        address == Strip(l.street1 \o <<",", " ", "L", "a", "f", "a", "y", "e",
                                        "t", "t", "e", ",", " ", "I", "N",
                                        " ">>)
    IN  IF ~l.dict THEN [err |-> NoError, recs |-> <<>>]
        ELSE IF beds.err # NoError THEN [err |-> beds.err, recs |-> <<>>]
        ELSE IF baths.err # NoError THEN [err |-> baths.err, recs |-> <<>>]
        ELSE IF prices.err # NoError
        THEN [err |-> prices.err, recs |-> <<>>]
        ELSE IF prices.v = <<>> THEN [err |-> NoError, recs |-> <<>>]
        ELSE [err |-> NoError,
              recs |-> Appended(<<mk_record(url, SmartCo, title,
                                            PyInt(prices.v[1]),
                                            PyInt(beds.v), PyFloat(baths.v),
                                            address)>>)]

\* the loop over the listings of one block, from listing i on: the records
\* appended before the first exception, and that exception
RECURSIVE SmartBlock(_, _, _, _)
SmartBlock(url, ls, i, acc) ==
    IF i > Len(ls) THEN [err |-> NoError, recs |-> acc]
    ELSE LET r == SmartListing(url, ls[i])
         IN  IF r.err # NoError THEN [err |-> r.err, recs |-> acc]
             ELSE SmartBlock(url, ls, i + 1, acc \o r.recs)

\* the loop over the blocks, from block i on: a JSONDecodeError and a
\* ValueError end the block, any other exception leaves the function
RECURSIVE SmartBlocks(_, _, _, _)
SmartBlocks(url, bs, i, acc) ==
    IF i > Len(bs) THEN Ok(acc)
    ELSE IF ~bs[i].valid THEN SmartBlocks(url, bs, i + 1, acc)
    ELSE LET r == SmartBlock(url, bs[i].listings, 1, <<>>)
         IN  IF r.err = "TypeError" THEN Raised
             ELSE SmartBlocks(url, bs, i + 1, acc \o r.recs)

SmartTiers(url, p) ==
    << Tier("embedded", SmartBlocks(url, p.comments, 1, <<>>)) >>

parse_smartdigs(url, p) == Returned(SmartTiers(url, p))

DefaultTiers(url, p) ==
    << Tier("text", TextTier(url, <<"U", "n", "k", "n", "o", "w", "n">>, p,
      <<"L", "i", "s", "t", "i", "n", "g">>,
                             ExtractAddress(p.items, WestLafayetteIN))) >>

parse_default(url, p) == Returned(DefaultTiers(url, p))

\* the registry, in the order of the dict
PARSERS ==
    << [site |-> <<"g", "r", "a", "n", "i", "t", "e", "s", "t", "u", "d", "e",
                   "n", "t", "l", "i", "v", "i", "n", "g", ".", "c", "o",
                   "m">>, fn |-> "parse_granite"],
       [site |-> <<"w", "e", "i", "d", "a", "a", "p", "a", "r", "t", "m", "e",
                   "n", "t", "s", ".", "c", "o", "m">>, fn |-> "parse_weida"],
       [site |-> <<"m", "u", "i", "n", "z", "e", "r", "c", "l", "o", "s", "e",
                   "t", "o", "c", "a", "m", "p", "u", "s", ".", "c", "o",
                   "m">>, fn |-> "parse_muinzer"],
       [site |-> <<"a", "m", "e", "r", "i", "c", "a", "n", "c", "a", "m", "p",
                   "u", "s", ".", "c", "o",
                   "m">>, fn |-> "parse_american_campus"],
       [site |-> <<"r", "e", "d", "p", "o", "i", "n", "t", "-", "w", "e", "s",
                   "t", "l", "a", "f", "a", "y", "e", "t", "t", "e", ".", "c",
                   "o", "m">>, fn |-> "parse_redpoint"],
       [site |-> <<"a", "l", "i", "g", "h", "t", "-", "w", "e", "s", "t", "l",
                   "a", "f", "a", "y", "e", "t", "t", "e", ".", "c", "o",
                   "m">>, fn |-> "parse_alight"],
       [site |-> <<"y", "u", "g", "o", ".", "c", "o",
                   "m">>, fn |-> "parse_yugo"],
       [site |-> <<"s", "m", "a", "r", "t", "d", "i", "g", "s", ".", "c", "o",
                   "m">>, fn |-> "parse_smartdigs"],
       [site |-> <<"b", "k", "-", "m", "a", "n", "a", "g", "e", "m", "e", "n",
                   "t", ".", "c", "o", "m">>, fn |-> "parse_bk"],
       [site |-> <<"w", "a", "b", "a", "s", "h", "l", "a", "n", "d", "i", "n",
                   "g", ".", "c", "o", "m">>, fn |-> "parse_wabash"],
       [site |-> <<"e", "v", "e", "r", "w", "e", "s", "t", "l", "a", "f", "a",
                   "y", "e", "t", "t", "e", ".", "c", "o",
                   "m">>, fn |-> "parse_ever"],
       [site |-> <<"o", "f", "f", "c", "a", "m", "p", "u", "s", "h", "o", "u",
                   "s", "i", "n", "g", ".", "p", "u", "r", "d", "u", "e", ".",
                   "e", "d", "u">>, fn |-> "parse_purdue"],
       [site |-> <<"r", "i", "s", "e", "o", "n", "c", "h", "a", "u", "n", "c",
                   "e", "y", ".", "c", "o", "m">>, fn |-> "parse_rise"],
       [site |-> <<"f", "a", "i", "r", "w", "a", "y", "-", "a", "p", "a", "r",
                   "t", "m", "e", "n", "t", "s", ".", "c", "o",
                   "m">>, fn |-> "parse_fairway"] >>

\* the tiers of the strategy fn for a page
TiersOf(fn, url, p) ==
    CASE fn = "parse_granite"         -> GraniteTiers(url, p)
      [] fn = "parse_weida"           -> WeidaTiers(url, p)
      [] fn = "parse_muinzer"         -> MuinzerTiers(url, p)
      [] fn = "parse_american_campus" -> AmericanTiers(url, p)
      [] fn = "parse_redpoint"        -> RedpointTiers(url, p)
      [] fn = "parse_alight"          -> AlightTiers(url, p)
      [] fn = "parse_yugo"            -> YugoTiers(url, p)
      [] fn = "parse_smartdigs"       -> SmartTiers(url, p)
      [] fn = "parse_bk"              -> BkTiers(url, p)
      [] fn = "parse_wabash"          -> WabashTiers(url, p)
      [] fn = "parse_ever"            -> EverTiers(url, p)
      [] fn = "parse_purdue"          -> PurdueTiers(url, p)
      [] fn = "parse_rise"            -> RiseTiers(url, p)
      [] fn = "parse_fairway"         -> FairwayTiers(url, p)
      [] fn = "parse_default"         -> DefaultTiers(url, p)

\* fn(url, soup)
Apply(fn, url, p) ==
    CASE fn = "parse_granite"         -> parse_granite(url, p)
      [] fn = "parse_weida"           -> parse_weida(url, p)
      [] fn = "parse_muinzer"         -> parse_muinzer(url, p)
      [] fn = "parse_american_campus" -> parse_american_campus(url, p)
      [] fn = "parse_redpoint"        -> parse_redpoint(url, p)
      [] fn = "parse_alight"          -> parse_alight(url, p)
      [] fn = "parse_yugo"            -> parse_yugo(url, p)
      [] fn = "parse_smartdigs"       -> parse_smartdigs(url, p)
      [] fn = "parse_bk"              -> parse_bk(url, p)
      [] fn = "parse_wabash"          -> parse_wabash(url, p)
      [] fn = "parse_ever"            -> parse_ever(url, p)
      [] fn = "parse_purdue"          -> parse_purdue(url, p)
      [] fn = "parse_rise"            -> parse_rise(url, p)
      [] fn = "parse_fairway"         -> parse_fairway(url, p)
      [] fn = "parse_default"         -> parse_default(url, p)

\* _pick_parser(url): the function of the first entry whose key is in url
PickParser(url) ==
    LET hits == {i \in 1..Len(PARSERS) : Contains(url, PARSERS[i].site)}
    IN  IF hits = {} THEN "parse_default" ELSE PARSERS[MinOf(hits)].fn

\* html=None
NoHtml == [none |-> TRUE]

\* BeautifulSoup("", "lxml")
EmptyPage ==
    [title |-> NoneStr, items |-> <<>>, scripts |-> <<>>, comments |-> <<>>,
     extra |-> <<>>]

\* BeautifulSoup(html or "", "lxml")
Soup(html) == IF html = NoHtml THEN EmptyPage ELSE html

\* parse_html(url, html)
parse_html(url, html) == Apply(PickParser(url), url, Soup(html))

\* r.get("price")
HasPrice(r) == r.price # None /\ r.price # 0

\* valid = [r for r in recs if r.get("price")] for what parse_html gave; an
\* exception is caught and nothing is added
PricedOrNone(r) ==
    IF r.raised THEN Ok(<<>>) ELSE Ok(SelectSeq(r.recs, HasPrice))

\* the same without the try
PricedOrRaise(r) ==
    IF r.raised THEN Raised ELSE Ok(SelectSeq(r.recs, HasPrice))

\* one input without the try: its exception leaves the loop
ItemNoTry(url, html) == PricedOrRaise(parse_html(url, html))

\* the body of the loop of parse_html_many for one input: the records it
\* adds to all_results
ItemRecords(url, html) == PricedOrNone(parse_html(url, html))

\* parse_html_many(*args): the call is [form, items]; form "pair" is
\* (url, html) with a str url, form "map" is one dict, given by its items;
\* any other form raises TypeError
parse_html_many(call) ==
    IF call.form \notin {"pair", "map"} THEN Raised
    ELSE Gather([i \in 1..Len(call.items) |->
                    ItemRecords(call.items[i][1], call.items[i][2])])

----------------------------------------------------------------------------

(* scraper_selenium.py: _slug *)

SlugMaxLen == 60

IsSlugChar(c) == c \in Range(LowerChars) \/ IsDigit(c)

\* re.sub(r"[^a-z0-9]+", "-", s): every maximal run of other characters
\* becomes one "-"
RECURSIVE SubNonAlnum(_, _)
SubNonAlnum(s, inRun) ==
    IF s = <<>> THEN <<>>
    ELSE IF IsSlugChar(Head(s)) THEN <<Head(s)>> \o SubNonAlnum(Tail(s), FALSE)
    ELSE IF inRun THEN SubNonAlnum(Tail(s), TRUE)
    ELSE <<"-">> \o SubNonAlnum(Tail(s), TRUE)

SlugTruncate(s) == SubSeq(s, 1, Min(Len(s), SlugMaxLen))

\* the slug without the lower-casing step
SlugKeepCase(s0) ==
    LET s1 == IF s0 = NoneStr THEN <<>> ELSE s0
        s2 == StripChars(SubNonAlnum(s1, FALSE), {"-"})
        s3 == SlugTruncate(s2)
    IN  IF s3 = <<>> THEN <<"u", "n", "i", "t">> ELSE s3

Slug(s0) ==
    LET s1 == IF s0 = NoneStr THEN <<>> ELSE s0
        s2 == StripChars(SubNonAlnum(Lower(s1), FALSE), {"-"})
        s3 == SlugTruncate(s2)
    IN  IF s3 = <<>> THEN <<"u", "n", "i", "t">> ELSE s3

----------------------------------------------------------------------------
(* scraper_selenium.py: _stabilize_unit_urls *)

UnitFragPrefix == <<"#", "u", "n", "i", "t", "-">>

\* title = (l.get("title") or "").strip()
TitleOf(l) == IF l.title = NoneStr THEN <<>> ELSE Strip(l.title)

\* price = int(l.get("price") or 0)
PriceOf(l) == IF l.price = None THEN 0 ELSE l.price

\* synth = url + f"#unit-{_slug(title)}-{price}"
SynthKey(url, l) ==
    url \o UnitFragPrefix \o Slug(TitleOf(l)) \o <<"-">> \o Str(PriceOf(l))

\* f"{synth}-{i}"
Suffixed(synth, i) == synth \o <<"-">> \o Str(i)

\* the while loop: i = 1; unique_url = synth;
\* while unique_url in seen: i += 1; unique_url = f"{synth}-{i}"
RECURSIVE UniqueUrl(_, _, _)
UniqueUrl(synth, seen, i) ==
    LET cand == IF i = 1 THEN synth ELSE Suffixed(synth, i)
    IN  IF cand \in seen THEN UniqueUrl(synth, seen, i + 1) ELSE cand

\* the synthesized key is used whether or not it is already taken
PickSynth(synth, seen) == synth

\* "De-dup if collision happens": the url given to a row, given the urls
\* already given to the earlier rows of its group
PickUrl(synth, seen) == UniqueUrl(synth, seen, 1)

\* the inner for loop over the rows of one url: the keys given to rows[1..n]
RECURSIVE GroupKeys(_, _, _)
GroupKeys(url, rows, n) ==
    IF n = 0 THEN <<>>
    ELSE LET before == GroupKeys(url, rows, n - 1)
         IN  Append(before, PickUrl(SynthKey(url, rows[n]), Range(before)))

\* by_url[l["url"]]: the positions of the listings with this url, in order
GroupOf(ls, url) == {i \in 1..Len(ls) : ls[i].url = url}

\* position of listing k within its url group (1-based)
RankIn(ls, k) == Cardinality({i \in GroupOf(ls, ls[k].url) : i <= k})

RECURSIVE SeqOfGroup(_, _, _)
SeqOfGroup(ls, url, k) ==
    IF k = 0 THEN <<>>
    ELSE IF ls[k].url = url THEN Append(SeqOfGroup(ls, url, k - 1), ls[k])
    ELSE SeqOfGroup(ls, url, k - 1)

\* every record gets a synthesized key, alone on its url or not
StabilizeEvery(ls) ==
    [k \in 1..Len(ls) |->
        LET url  == ls[k].url
            rows == SeqOfGroup(ls, url, Len(ls))
        IN  [ls[k] EXCEPT
                !.url = GroupKeys(url, rows, Len(rows))[RankIn(ls, k)]]]

StabilizeUnitUrls(ls) ==
    [k \in 1..Len(ls) |->
        LET url  == ls[k].url
            rows == SeqOfGroup(ls, url, Len(ls))
        IN  IF Len(rows) = 1 THEN ls[k]
            ELSE [ls[k] EXCEPT
                    !.url = GroupKeys(url, rows, Len(rows))[RankIn(ls, k)]]]

----------------------------------------------------------------------------
(* scraper_selenium.py: ensure_db, insert_listings *)

\* valid = [l for l in listings if l.get("price") not in (None, 0)]
IsPriced(l) == l.price \notin {None, 0}

RECURSIVE FilterPriced(_)
FilterPriced(ls) ==
    IF ls = <<>> THEN <<>>
    ELSE IF IsPriced(Head(ls)) THEN <<Head(ls)>> \o FilterPriced(Tail(ls))
    ELSE FilterPriced(Tail(ls))

\* the tuple built for executemany from one record
TupleOf(l) ==
    [url             |-> l.url,
     company         |-> l.company,
     title           |-> l.title,
     price           |-> l.price,
     beds            |-> IF l.beds = None THEN 0 ELSE l.beds,
     baths           |-> IF l.baths = NoFloat THEN Float(0, 0) ELSE l.baths,
     address         |-> IF l.address = NoneStr THEN <<>> ELSE l.address,
     last_scraped_at |-> l.last_scraped_at]

RowOf(id, t) ==
    [id |-> id, url |-> t.url, company |-> t.company, title |-> t.title,
     price |-> t.price, beds |-> t.beds, baths |-> t.baths,
     address |-> t.address, last_scraped_at |-> t.last_scraped_at]

\* on conflict the stored row is left as it is
UpsertKeepOld(tbl, t) ==
    IF \E i \in 1..Len(tbl) : tbl[i].url = t.url
    THEN tbl
    ELSE Append(tbl, RowOf(Len(tbl) + 1, t))

\* INSERT ... ON CONFLICT(url) DO UPDATE SET <every non-key column>
Upsert(tbl, t) ==
    IF \E i \in 1..Len(tbl) : tbl[i].url = t.url
    THEN LET i == CHOOSE j \in 1..Len(tbl) : tbl[j].url = t.url
         IN  [tbl EXCEPT ![i] = RowOf(tbl[i].id, t)]
    ELSE Append(tbl, RowOf(Len(tbl) + 1, t))

\* executemany: the statement is run for each tuple in order
RECURSIVE ExecuteMany(_, _)
ExecuteMany(tbl, ts) ==
    IF ts = <<>> THEN tbl
    ELSE ExecuteMany(Upsert(tbl, TupleOf(Head(ts))), Tail(ts))

\* CREATE TABLE: an empty table
DropAndCreate(exists, tbl) == <<>>

\* CREATE TABLE IF NOT EXISTS
CreateIfNotExists(exists, tbl) == IF exists THEN tbl ELSE <<>>

TableUrls(tbl) == {tbl[i].url : i \in 1..Len(tbl)}

RowsWithUrl(tbl, u) == {i \in 1..Len(tbl) : tbl[i].url = u}

----------------------------------------------------------------------------
(* load.py: insert_listing, on the table of schema.py *)

\* on conflict the stored row is replaced by the new one
InsertOrReplace(tbl, l, id) ==
    IF l.title = NoneStr THEN tbl
    ELSE IF \E i \in 1..Len(tbl) : tbl[i].url = l.url
    THEN LET i == CHOOSE j \in 1..Len(tbl) : tbl[j].url = l.url
         IN  [tbl EXCEPT ![i] = RowOf(id, l)]
    ELSE Append(tbl, RowOf(id, l))

\* INSERT OR IGNORE: a row that breaks url UNIQUE or title NOT NULL is
\* skipped without an error
InsertOrIgnore(tbl, l, id) ==
    IF l.title = NoneStr \/ \E i \in 1..Len(tbl) : tbl[i].url = l.url
    THEN tbl
    ELSE Append(tbl, RowOf(id, l))

----------------------------------------------------------------------------
(* link_discovery.py: SITE_RULES, _match_any, discover_links *)

MaxResults == 200

\* allow_patterns=None / deny_patterns=None
NoPatterns == <<NoneStr>>

\* re.search(p, s) for a pattern without metacharacters
ReSearch(p, s) == Contains(s, p)

\* the first two rules of the table, in table order; their patterns are plain
\* substrings
SITE_RULES ==
    << [site  |-> <<"g", "r", "a", "n", "i", "t", "e", "s", "t", "u", "d",
        "e", "n", "t", "l", "i", "v", "i", "n", "g", ".", "c", "o", "m">>,
        allow |-> << <<"/", "l", "i", "s", "t", "i", "n", "g", "s">>, <<"/",
            "p", "r", "o", "p", "e", "r", "t", "y">>, <<"/", "p", "u", "r",
            "d", "u", "e">>, <<"l", "o", "c", "a", "t", "i", "o", "n", "=",
            "p", "u", "r", "d", "u", "e">> >>,
        deny  |-> << <<"/", "a", "b", "o", "u", "t">>, <<"/", "b", "l", "o",
            "g">>, <<"/", "c", "o", "n", "t", "a", "c", "t">>, <<"/", "p",
            "a", "y", "m", "e", "n", "t">>, <<"/", "m", "a", "i", "n", "t",
            "e", "n", "a", "n", "c", "e">>,
                     <<"/", "b", "a", "n", "a", "n", "a", "-", "b", "l", "o",
                         "g">>, <<"/", "c", "a", "r", "e", "e", "r", "s">>,
                         <<"/", "r", "e", "s", "i", "d", "e", "n", "t">>,
                         <<"/", "g", "u", "a", "r", "a", "n", "t", "o",
                         "r">> >>],
       [site  |-> <<"w", "e", "i", "d", "a", "a", "p", "a", "r", "t", "m",
           "e", "n", "t", "s", ".", "c", "o", "m">>,
        allow |-> << <<"/", "a", "v", "a", "i", "l", "a", "b", "i", "l", "i",
            "t", "y">>, <<"/", "a", "p", "a", "r", "t", "m", "e", "n", "t",
            "s">>, <<"/", "a", "v", "a", "i", "l", "a", "b", "l", "e">>,
                     <<"/", "w", "e", "s", "t", "-", "l", "a", "f", "a", "y",
                         "e", "t", "t", "e">> >>,
        deny  |-> << <<"/", "a", "b", "o", "u", "t">>, <<"/", "b", "l", "o",
            "g">>, <<"/", "c", "o", "n", "t", "a", "c", "t">>, <<"/", "r",
            "e", "s", "o", "u", "r", "c", "e", "s">>, <<"/", "r", "e", "s",
            "i", "d", "e", "n", "t", "s">>,
                     <<"/", "m", "a", "i", "n", "t", "e", "n", "a", "n", "c",
                         "e">>, <<"/", "d", "o", "c", "u", "m", "e", "n",
                         "t", "s">>, <<"/", "p", "e", "t", "-", "p", "o",
                         "l", "i", "c", "y">> >>] >>

\* _match_any(patterns, path)
MatchAny(patterns, path) ==
    IF patterns = <<>> THEN TRUE
    ELSE \E i \in 1..Len(patterns) : ReSearch(patterns[i], path)

\* index of the first rule whose site is a substring of host, 0 if none
FirstRule(host) ==
    IF \E i \in 1..Len(SITE_RULES) : Contains(host, SITE_RULES[i].site)
    THEN CHOOSE i \in 1..Len(SITE_RULES) :
            /\ Contains(host, SITE_RULES[i].site)
            /\ \A j \in 1..(i - 1) : ~Contains(host, SITE_RULES[j].site)
    ELSE 0

\* the patterns of the table replace those the caller supplied
PresetAllow(host, allow, deny) ==
    IF FirstRule(host) # 0 THEN SITE_RULES[FirstRule(host)].allow ELSE allow

\* allow_patterns after the preset loop
ResolveAllow(host, allow, deny) ==
    IF (allow = NoPatterns \/ deny = NoPatterns) /\ FirstRule(host) # 0
       /\ allow = NoPatterns
    THEN SITE_RULES[FirstRule(host)].allow
    ELSE allow

\* deny_patterns after the preset loop
ResolveDeny(host, allow, deny) ==
    IF (allow = NoPatterns \/ deny = NoPatterns) /\ FirstRule(host) # 0
       /\ deny = NoPatterns
    THEN SITE_RULES[FirstRule(host)].deny
    ELSE deny

\* a list of patterns is truthy when it is neither None nor empty
Truthy(patterns) == patterns # NoPatterns /\ patterns # <<>>

Scheme == <<"h", "t", "t", "p", "s", ":", "/", "/">>

\* urljoin(start_url, href) followed by urlparse, for an href that is an
\* absolute url, a url of another scheme (returned as it is, with an empty
\* netloc), an absolute path, or only a query and/or fragment
UrlJoin(start, href) ==
    IF href.kind \in {"abs", "other"}
    THEN [scheme |-> href.scheme, host |-> href.host, path |-> href.path,
          query |-> href.query, frag |-> href.frag]
    ELSE IF href.path # <<>>
    THEN [scheme |-> Scheme, host |-> start.host, path |-> href.path,
          query |-> href.query, frag |-> href.frag]
    ELSE [scheme |-> Scheme, host |-> start.host, path |-> start.path,
          query |-> IF href.query # <<>> THEN href.query ELSE start.query,
          frag |-> href.frag]

\* the text of a url
UrlText(u) ==
    u.scheme \o u.host \o u.path
    \o (IF u.query # <<>> THEN <<"?">> \o u.query ELSE <<>>)
    \o (IF u.frag # <<>> THEN <<"#">> \o u.frag ELSE <<>>)

AssetExts == { <<".", "p", "d", "f">>, <<".", "j", "p", "g">>, <<".", "j",
    "p", "e", "g">>, <<".", "p", "n", "g">>, <<".", "g", "i", "f">>, <<".",
    "s", "v", "g">> }

IsAsset(url) == \E ext \in AssetExts : EndsWith(Lower(url), ext)

\* every fragment counts as a unit anchor
AnyFragment(frag) == TRUE

\* re.search(r"(unit_|floorplan|detail)", fragment, re.I)
IsUnitAnchor(frag) ==
    \E w \in { <<"u", "n", "i", "t", "_">>, <<"f", "l", "o", "o", "r", "p",
        "l", "a", "n">>, <<"d", "e", "t", "a", "i",
        "l">> } : Contains(Lower(frag), w)

\* path_q = (u.path or "") + ("?" + (u.query or "") if u.query else "")
PathQ(u) == u.path \o (IF u.query # <<>> THEN <<"?">> \o u.query ELSE <<>>)

\* allow is consulted first and a match on it keeps the link
PassesAllowFirst(pathq, allow, deny) ==
    \/ Truthy(allow) /\ MatchAny(allow, pathq)
    \/ ~(Truthy(deny) /\ MatchAny(deny, pathq))

\* the deny and allow tests of the loop body
PassesRules(pathq, allow, deny) ==
    /\ ~(Truthy(deny) /\ MatchAny(deny, pathq))
    /\ ~(Truthy(allow) /\ ~MatchAny(allow, pathq))

\* the loop body without the test of the host
IgnoresDomain(start, href, same_domain) ==
    /\ href.kind \notin {"empty", "mailto", "tel"}
    /\ LET u == UrlJoin(start, href)
       IN  /\ ~IsAsset(UrlText(u))
           /\ ~(u.frag # <<>> /\ ~IsUnitAnchor(u.frag))

\* the tests of the loop body that come before the rules
IsCandidate(start, href, same_domain) ==
    /\ href.kind \notin {"empty", "mailto", "tel"}
    /\ LET u == UrlJoin(start, href)
       IN  /\ ~(same_domain /\ u.host # start.host)
           /\ ~IsAsset(UrlText(u))
           /\ ~(u.frag # <<>> /\ ~IsUnitAnchor(u.frag))

\* the for loop over the anchors: the list out before deduplication
Collect(start, hrefs, same_domain, allow, deny) ==
    LET Kept(h) == /\ IsCandidate(start, h, same_domain)
                   /\ PassesRules(PathQ(UrlJoin(start, h)), allow, deny)
        kept == SelectSeq(hrefs, Kept)
    IN  [i \in 1..Len(kept) |-> UrlText(UrlJoin(start, kept[i]))]

\* no deduplication at all
KeepAll(s) == s

\* list(dict.fromkeys(out)): the first occurrence of every element, in order
Dedup(s) ==
    LET first == SelectSeq([i \in 1..Len(s) |-> i],
                           LAMBDA i : \A j \in 1..(i - 1) : s[j] # s[i])
    IN  [k \in 1..Len(first) |-> s[first[k]]]

\* out[:200]
Truncate(s) == SubSeq(s, 1, Min(Len(s), MaxResults))

DiscoverLinks(start, ok, hrefs, same_domain, allow, deny) ==
    IF ~ok THEN <<>>
    ELSE Truncate(Dedup(Collect(start, hrefs, same_domain,
                                ResolveAllow(start.host, allow, deny),
                                ResolveDeny(start.host, allow, deny))))

----------------------------------------------------------------------------
(* Inputs of the store *)

MaxCalls == 2
MaxBatch == 3

U  == <<"u">>
X  == <<"h", "t", "t", "p", "s", ":", "/", "/", "x", ".", "c", "o", "m",
        "/", "p", "l", "a", "n", "s">>
\* a page url that already carries a unit fragment: u#unit-a-1200
UK == U \o UnitFragPrefix \o <<"a", "-", "1", "2", "0", "0">>

Company == <<"T", "e", "s", "t", " ", "C", "o">>

Rec(url, title, price, beds) ==
    [url |-> url, company |-> Company, title |-> title, price |-> price,
     beds |-> beds, baths |-> Float(1, 0), address |-> <<>>,
         last_scraped_at |-> Now]

T_a  == <<"a">>
T_a1 == <<"a", "-", "1">>
T_A1 == <<"A", "1">>
T_B2 == <<"B", "2">>

StorePool ==
    { Rec(U,  T_a,  1200, 1),
      Rec(U,  T_a,  1200, None),
      Rec(UK, T_a,  7000, 2),
      Rec(U,  T_a,  None, 1),
      Rec(U,  T_B2, 0,    1) }

\* batches of up to MaxBatch different records of the pool
StoreBatches ==
    {b \in SeqsUpTo(StorePool, MaxBatch) :
        \A i, j \in 1..Len(b) : b[i] = b[j] => i = j}

----------------------------------------------------------------------------
(* The parts of the state a component does not use *)

StoreIdle ==
    /\ dbExists = FALSE
    /\ table = <<>>
    /\ valid = <<>>
    /\ ret = None
    /\ written = {}
    /\ calls = 0
    /\ tableBefore = <<>>

KeysIdle == listings = <<>> /\ stabilized = <<>>

AsmIdle == args = <<>> /\ rec = <<>>

LinkIdle ==
    /\ startUrl = <<>>
    /\ fetched = FALSE
    /\ sameDomain = FALSE
    /\ allowPat = <<>>
    /\ denyPat = <<>>
    /\ anchors = <<>>
    /\ out = <<>>

ParseIdle == pageUrl = <<>> /\ page = <<>> /\ parsed = <<>>

ManyIdle == manyCall = <<>> /\ manyOut = <<>>

NormIdle == priceText = <<>> /\ normPrice = None

CrawlIdle ==
    /\ driverAlive = FALSE
    /\ frontier = <<>>
    /\ pos = 0
    /\ attempted = <<>>
    /\ total = 0
    /\ crawlPc = "start"
    /\ siteNo = 0
    /\ mainPc = "idle"
    /\ driver = 0
    /\ retired = {}

RestIdle == ParseIdle /\ ManyIdle /\ NormIdle /\ CrawlIdle

----------------------------------------------------------------------------
(* The store: ensure_db and insert_listings *)

InitStore ==
    /\ comp = "store"
    /\ pc = "in"
    /\ RestIdle
    /\ StoreIdle
    /\ KeysIdle
    /\ AsmIdle
    /\ LinkIdle

EnsureDb ==
    /\ comp = "store"
    /\ table' = CreateIfNotExists(dbExists, table)
    /\ dbExists' = TRUE
    /\ UNCHANGED <<comp, pc, valid, ret, written, calls, tableBefore,
                   keyVars, asmVars, linkVars, restVars>>

\* insert_listings whose filter leaves nothing: return 0 before any write
InsertNone(batch) ==
    /\ FilterPriced(batch) = <<>>
    /\ valid' = <<>>
    /\ ret' = 0
    /\ written' = {}
    /\ UNCHANGED table

InsertSome(batch) ==
    /\ FilterPriced(batch) # <<>>
    /\ valid' = StabilizeUnitUrls(FilterPriced(batch))
    /\ table' = ExecuteMany(table, valid')
    /\ ret' = Len(valid')
    /\ written' = {table'[i].id : i \in {j \in 1..Len(table') :
                        \E k \in 1..Len(valid') : valid'[k].url = table'[j].url}}

InsertListings ==
    /\ comp = "store"
    /\ dbExists
    /\ calls < MaxCalls
    /\ \E batch \in StoreBatches :
          /\ listings' = batch
          /\ \/ InsertNone(batch)
             \/ InsertSome(batch)
    /\ calls' = calls + 1
    /\ tableBefore' = table
    /\ pc' = "done"
    /\ UNCHANGED <<comp, dbExists, stabilized, asmVars, linkVars, restVars>>

NextStore == EnsureDb \/ InsertListings

SpecStore == InitStore /\ [][NextStore]_vars

----------------------------------------------------------------------------
(* _stabilize_unit_urls applied to one batch *)

MaxGroup == 3

KeyUnits == { <<T_a, 1>>, <<T_a1, 2>>, <<T_A1, 1200>>, <<T_B2, 1300>>,
              <<NoneStr, 2>> }

KeyPool == { Rec(u, tp[1], tp[2], 1) : u \in {U, X}, tp \in KeyUnits }

KeyBatches == SeqsUpTo(KeyPool, MaxGroup)

InitKeys ==
    /\ comp = "keys"
    /\ pc = "in"
    /\ RestIdle
    /\ StoreIdle
    /\ listings \in KeyBatches
    /\ stabilized = <<>>
    /\ AsmIdle
    /\ LinkIdle

Stabilize ==
    /\ comp = "keys"
    /\ pc = "in"
    /\ stabilized' = StabilizeUnitUrls(listings)
    /\ pc' = "done"
    /\ UNCHANGED <<comp, storeVars, listings, asmVars, linkVars, restVars>>

NextKeys == Stabilize

SpecKeys == InitKeys /\ [][NextKeys]_vars

----------------------------------------------------------------------------
(* The single-record write path: create_listings_table and insert_listing *)

MaxInserts == 3

LoadPool ==
    { Rec(U, T_a, 1200, 1),
      Rec(U, T_B2, 1300, 2),
      Rec(U, NoneStr, 1300, 2),
      Rec(X, T_a, 1200, 1),
      Rec(X, T_B2, 1300, 2),
      Rec(X, NoneStr, 1300, 1) }

InitLoad ==
    /\ comp = "load"
    /\ pc = "in"
    /\ RestIdle
    /\ StoreIdle
    /\ KeysIdle
    /\ AsmIdle
    /\ LinkIdle

CreateListingsTable ==
    /\ comp = "load"
    /\ table' = CreateIfNotExists(dbExists, table)
    /\ dbExists' = TRUE
    /\ UNCHANGED <<comp, pc, valid, ret, written, calls, tableBefore,
                   keyVars, asmVars, linkVars, restVars>>

\* insert_listing before the table exists: cur.execute raises
InsertWithoutTable ==
    /\ comp = "load"
    /\ ~dbExists
    /\ calls < MaxInserts
    /\ \E l \in LoadPool : listings' = <<l>>
    /\ calls' = calls + 1
    /\ tableBefore' = table
    /\ pc' = "raised"
    /\ UNCHANGED <<comp, dbExists, table, valid, ret, written, stabilized,
                   asmVars, linkVars, restVars>>

\* insert_listing(listing); every statement takes the next row id
InsertListing ==
    /\ comp = "load"
    /\ dbExists
    /\ calls < MaxInserts
    /\ \E l \in LoadPool :
          /\ listings' = <<l>>
          /\ table' = InsertOrIgnore(table, l, calls + 1)
    /\ calls' = calls + 1
    /\ tableBefore' = table
    /\ pc' = "done"
    /\ UNCHANGED <<comp, dbExists, valid, ret, written, stabilized, asmVars,
                   linkVars, restVars>>

NextLoad == CreateListingsTable \/ InsertWithoutTable \/ InsertListing

SpecLoad == InitLoad /\ [][NextLoad]_vars

\* C30: a call of insert_listing with a url that is already stored raises
\* nothing and leaves the table as it is; no call changes or removes a stored
\* row, and a call adds at most one row, whose url was not stored before.
FirstWriteWins ==
    [][(calls' = calls + 1) =>
          /\ listings'[1].url \in TableUrls(table) =>
                (pc' = "done" /\ table' = table)
          /\ Len(table') >= Len(table)
          /\ \A i \in 1..Len(table) : table'[i] = table[i]
          /\ Len(table') > Len(table) =>
                /\ Len(table') = Len(table) + 1
                /\ listings'[1].url \notin TableUrls(table)
                /\ table'[Len(table')].url = listings'[1].url
      ]_vars

\* a listing was inserted whose url is stored with another title and price
FirstWriteWinsWitness ==
    /\ comp = "load"
    /\ pc = "done"
    /\ \E i \in 1..Len(table) :
          /\ table[i].url = listings[1].url
          /\ table[i].title # listings[1].title
          /\ table[i].price # listings[1].price
          /\ listings[1].title # NoneStr

----------------------------------------------------------------------------
(* The Record Assembler applied to one set of arguments *)

MaxPriceLen == 4

PriceChars == {"0", "1", "3", "6", ",", "-", ".", "$"}

PriceInts == {0, 1, 250, 299, 300, 301, 1200, 5999, 6000, 6001, 7000}

PriceArgs ==
    {PyNone} \cup {PyInt(n) : n \in PriceInts}
             \cup {PyStr(t) : t \in SeqsUpTo(PriceChars, MaxPriceLen)}

BedsArgs == {PyNone, PyInt(2), PyStr(<<"S", "t", "u", "d", "i", "o">>),
             PyStr(<<"N", "/", "A">>)}

BathsArgs == {PyStr(<<>>), PyStr(<<"1", ".", "5", " ", "B", "a", "t", "h">>),
              PyStr(<<"N", "/", "A">>)}

InitAsm ==
    /\ comp = "asm"
    /\ pc = "in"
    /\ RestIdle
    /\ StoreIdle
    /\ KeysIdle
    /\ args \in [url : {X}, company : {Company}, title : {T_A1},
                 price : PriceArgs, beds : BedsArgs, baths : BathsArgs,
                 address : {<<>>}]
    /\ rec = <<>>
    /\ LinkIdle

MkRecord ==
    /\ comp = "asm"
    /\ pc = "in"
    /\ rec' = mk_record(args.url, args.company, args.title, args.price,
                        args.beds, args.baths, args.address)
    /\ pc' = "done"
    /\ UNCHANGED <<comp, storeVars, keyVars, args, linkVars, restVars>>

NextAsm == MkRecord

SpecAsm == InitAsm /\ [][NextAsm]_vars

----------------------------------------------------------------------------
(* discover_links applied to one seed page *)

MaxAnchors == 2

\* how far past the cap of 200 the long seed pages go
MaxOver == 2

RelHref(path, query, frag) ==
    [kind |-> "rel", scheme |-> <<>>, host |-> <<>>, path |-> path,
     query |-> query, frag |-> frag]

AbsHref(host, path) ==
    [kind |-> "abs", scheme |-> Scheme, host |-> host, path |-> path,
     query |-> <<>>, frag |-> <<>>]

\* an href that starts with "mailto:"
MailHref == [kind |-> "mailto", scheme |-> <<"m", "a", "i", "l", "t", "o",
                                             ":">>, host |-> <<>>,
             path |-> <<"a", "@", "x", ".", "c", "o",
                        "m">>, query |-> <<>>, frag |-> <<>>]

\* an href that starts with "tel:"
TelHref == [kind |-> "tel", scheme |-> <<"t", "e", "l", ":">>, host |-> <<>>,
            path |-> <<"7", "6", "5">>, query |-> <<>>, frag |-> <<>>]

\* an href with a scheme of its own that starts with neither
OtherHref(scheme, rest) ==
    [kind |-> "other", scheme |-> scheme, host |-> <<>>, path |-> rest,
     query |-> <<>>, frag |-> <<>>]

HrefPool ==
    { RelHref(<<"/", "l", "i", "s", "t", "i", "n", "g", "s", "/", "f", "o",
        "o">>, <<>>, <<>>),
      RelHref(<<"/", "b", "l", "o", "g", "/", "l", "i", "s", "t", "i", "n",
          "g", "s", "/", "f", "o", "o">>, <<>>, <<>>),
      RelHref(<<"/", "a", "b", "o", "u", "t">>, <<>>, <<>>),
      RelHref(<<"/", "l", "i", "s", "t", "i", "n", "g", "s", "/", "f", "o",
          "o">>, <<>>, <<"d", "e", "t", "a", "i", "l">>),
      AbsHref(<<"y", ".", "c", "o", "m">>, <<"/", "l", "i", "s", "t", "i",
          "n", "g", "s", "/", "f", "o", "o">>),
      MailHref }

SeedUrls ==
    { [host |-> <<"x", ".", "c", "o", "m">>, path |-> <<"/", "p", "l", "a",
        "n", "s">>, query |-> <<>>],
      [host |-> <<"w", "w", "w", ".", "w", "e", "i", "d", "a", "a", "p", "a",
          "r", "t", "m", "e", "n", "t", "s", ".", "c", "o", "m">>,
          path |-> <<"/", "a", "v", "a", "i", "l", "a", "b", "i", "l", "i",
          "t", "y">>,
       query |-> <<>>],
      \* a host that holds the site identifiers of both rules
      [host |-> SITE_RULES[2].site \o <<".">> \o SITE_RULES[1].site,
       path |-> <<"/", "p", "l", "a", "n", "s">>, query |-> <<>>] }

AllowLists == { NoPatterns, <<>>, << <<"/", "l", "i", "s", "t", "i", "n",
    "g", "s">> >> }

DenyLists == { NoPatterns, <<>>, << <<"/", "b", "l", "o", "g">> >> }

\* a seed page with n anchors over m different paths
LongAnchors(n, m) ==
    [i \in 1..n |-> RelHref(<<"/", "l", "i", "s", "t", "i", "n", "g", "s",
        "/">> \o Str(i % m), <<>>, <<>>)]

LongPages ==
    { LongAnchors(n, m) : n \in (MaxResults - 1)..(MaxResults + MaxOver),
                          m \in {MaxResults - 1, MaxResults + 1} }

InitLinks ==
    /\ comp = "links"
    /\ pc = "in"
    /\ RestIdle
    /\ StoreIdle
    /\ KeysIdle
    /\ AsmIdle
    /\ startUrl \in SeedUrls
    /\ fetched \in BOOLEAN
    /\ sameDomain \in BOOLEAN
       \* a seed page that could not be fetched has no anchors
    /\ \/ /\ ~fetched
          /\ anchors = <<>>
          /\ allowPat \in AllowLists
          /\ denyPat \in DenyLists
       \/ /\ fetched
          /\ anchors \in SeqsUpTo(HrefPool, MaxAnchors)
          /\ allowPat \in AllowLists
          /\ denyPat \in DenyLists
       \/ /\ fetched
          /\ anchors \in LongPages
          /\ allowPat = << <<"/", "l", "i", "s", "t", "i", "n", "g", "s">> >>
          /\ denyPat = << <<"/", "b", "l", "o", "g">> >>
    /\ out = <<>>

Discover ==
    /\ comp = "links"
    /\ pc = "in"
    /\ out' = DiscoverLinks(startUrl, fetched, anchors, sameDomain,
                            allowPat, denyPat)
    /\ pc' = "done"
    /\ UNCHANGED <<comp, storeVars, keyVars, asmVars, startUrl, fetched,
                   sameDomain, allowPat, denyPat, anchors, restVars>>

NextLinks == Discover

SpecLinks == InitLinks /\ [][NextLinks]_vars

----------------------------------------------------------------------------
(* discover_links applied to anchors of every shape *)

ShapeSeed == [host |-> <<"x", ".", "c", "o", "m">>, path |-> <<"/", "p", "l",
                                                               "a", "n",
                                                               "s">>, query |-> <<>>]

ShapePool ==
    { MailHref,
      TelHref,
      OtherHref(<<"M", "A", "I", "L", "T", "O", ":">>, <<"a", "@", "x", ".",
                                                         "c", "o", "m">>),
      OtherHref(<<"T", "e", "l", ":">>, <<"7", "6", "5">>),
      AbsHref(<<"y", ".", "c", "o", "m">>, <<"/", "a">>),
      AbsHref(<<"X", ".", "c", "o", "m">>, <<"/", "a">>),
      RelHref(<<"/", "a">>, <<>>, <<>>),
      RelHref(<<"/", "a", ".", "p", "d", "f">>, <<>>, <<>>),
      RelHref(<<"/", "a", ".", "p", "d", "f">>, <<"v", "=", "2">>, <<>>),
      RelHref(<<"/", "a", ".", "p", "d", "f">>, <<>>, <<"d", "e", "t", "a",
                                                        "i", "l">>),
      RelHref(<<"/", "a">>, <<>>, <<"t", "o", "p">>),
      RelHref(<<"/", "a">>, <<>>, <<"F", "l", "o", "o", "r", "p", "l", "a",
                                    "n", "-", "B">>),
      RelHref(<<>>, <<>>, <<"t", "o", "p">>),
      RelHref(<<>>, <<>>, <<"u", "n", "i", "t", "_", "1">>) }

InitShapes ==
    /\ comp = "links"
    /\ pc = "in"
    /\ RestIdle
    /\ StoreIdle
    /\ KeysIdle
    /\ AsmIdle
    /\ startUrl = ShapeSeed
    /\ fetched = TRUE
    /\ sameDomain \in BOOLEAN
    /\ anchors \in SeqsUpTo(ShapePool, MaxAnchors)
    /\ allowPat = NoPatterns
    /\ denyPat = NoPatterns
    /\ out = <<>>

SpecShapes == InitShapes /\ [][NextLinks]_vars

----------------------------------------------------------------------------
(* parse_html applied to one page *)

MaxItems == 2
MaxScripts == 2
MaxBlocks == 2

\* the text of the end-to-end scenario
RangeUnit == <<"2", " ", "B", "e", "d", "s", ",", " ", "1", ".", "5", " ", "B",
               "a", "t", "h", ",", " ", "$", "1", ",", "4", "9", "9", " ", "-",
               " ", "$", "1", ",", "5", "4", "9", " ", "/", " ", "m", "o", "n",
               "t", "h">>
RangeRent == <<"$", "1", ",", "4", "9", "9", " ", "-", " ", "$", "1", ",", "5",
               "4", "9", " ", "/", " ", "m", "o", "n", "t", "h">>

Content(title, rent, beds, baths, addr, body) ==
    [title |-> title, rent |-> rent, beds |-> beds, baths |-> baths,
     addr |-> addr, body |-> body]

\* what a container holds: the scenario as one text, the scenario in the
\* elements of an AppFolio listing, a studio, a unit without a price
InText == Content(NoneStr, NoneStr, NoneStr, NoneStr, NoneStr, RangeUnit)
InElements ==
    Content(NoneStr, RangeRent, <<"2", " ", "B", "e", "d", "s">>, <<"1", ".",
                                                                    "5", " ",
                                                                    "B", "a",
                                                                    "t", "h">>, <<"1", "2", " ", "O", "a", "k", " ", "S", "t">>, <<>>)
StudioUnit ==
    Content(<<"S", "t", "u", "d", "i", "o", " ",
              "A">>, NoneStr, NoneStr, NoneStr, NoneStr, <<"S", "t", "u", "d",
                                                           "i", "o", " ", "$",
                                                           "9", "0", "0">>)
Unpriced ==
    Content(NoneStr, NoneStr, NoneStr, NoneStr, NoneStr, <<"C", "a", "l", "l",
                                                           " ", "f", "o", "r",
                                                           " ", "p", "r", "i",
                                                           "c", "i", "n",
                                                           "g">>)

Contents == {InText, InElements, StudioUnit, Unpriced}

Kinds == {"a.listings-list__item", "div.listing-item", "div.property",
          "div.floorplan", "article", "article.listing-card",
          "div.floor-plan-box"}

Unit(sel, c) ==
    [sel |-> sel, title |-> c.title, rent |-> c.rent, beds |-> c.beds,
     baths |-> c.baths, addr |-> c.addr, body |-> c.body]

Page(title, items, scripts, comments, extra) ==
    [title |-> title, items |-> items, scripts |-> scripts,
     comments |-> comments, extra |-> extra]

\* pages of one to MaxItems containers of one kind
UnitPages ==
    { Page(NoneStr, [i \in 1..Len(cs) |-> Unit(k, cs[i])], <<>>, <<>>, <<>>) :
        k \in Kinds, cs \in SeqsUpTo(Contents, MaxItems) \ {<<>>} }

Script(id, type, ok, dumps) ==
    [id |-> id, type |-> type, valid |-> ok, dumps |-> dumps]

\* a __NEXT_DATA__ block with a price, a malformed __NEXT_DATA__ block, and
\* a block that holds an empty object
ScriptPool ==
    { Script("__NEXT_DATA__", "application/json", TRUE, <<"{", "\"", "r", "e",
                                                          "n", "t", "\"", ":",
                                                          " ", "\"", "$", "9",
                                                          "5", "0", "\"",
                                                          "}">>),
      Script("__NEXT_DATA__", "application/json", FALSE, <<>>),
      Script("", "application/json", TRUE, <<"{", "}">>) }

PageTitle == <<"P", "l", "a", "n", "s">>
LooseText == <<"R", "o", "o", "m", "s", " ", "f", "r", "o", "m", " ", "$", "1",
               ",", "2", "0", "0">>

\* pages with script blocks and text outside the containers
FallbackPages ==
    { Page(t, its, ss, <<>>, e) :
        t \in {NoneStr, PageTitle},
        its \in {<<>>, <<Unit("article", InText)>>},
        ss \in SeqsUpTo(ScriptPool, MaxScripts),
        e \in {<<>>, LooseText} }

Listing(bedrooms, bathrooms, marketrent, unit, street1) ==
    [dict |-> TRUE, bedrooms |-> bedrooms, bathrooms |-> bathrooms,
     marketrent |-> marketrent, unit |-> unit, street1 |-> street1]

\* {"bedrooms": "3", "bathrooms": "1.0", "marketrent": "$1,395.00", ...}
GoodListing ==
    Listing(PyStr(<<"3">>), PyStr(<<"1", ".", "0">>), PyStr(<<"$", "1", ",",
                                                              "3", "9", "5",
                                                              ".", "0",
                                                              "0">>), PyStr(<<"U", "n", "i", "t", " ", "4">>),
            <<"1", "2", " ", "O", "a", "k", " ", "S", "t">>)

\* {"marketrent": "$1,100.00", "street1": "9 Elm St"}
BareListing ==
    Listing(Absent, Absent, PyStr(<<"$", "1", ",", "1", "0", "0", ".", "0",
                                    "0">>), Absent, <<"9", " ", "E", "l", "m",
                                                      " ", "S", "t">>)

\* {"bedrooms": null, "marketrent": "$1,100.00"}
NullBeds == Listing(PyNone, Absent, PyStr(<<"$", "1", ",", "1", "0", "0", ".",
                                            "0", "0">>), Absent, <<>>)

\* {"bedrooms": "N/A", "marketrent": "$1,100.00"}
TextBeds == Listing(PyStr(<<"N", "/", "A">>), Absent, PyStr(<<"$", "1", ",",
                                                              "1", "0", "0",
                                                              ".", "0",
                                                              "0">>), Absent, <<>>)

Block(ok, ls) == [valid |-> ok, listings |-> ls]

BlockPool ==
    { Block(TRUE, <<GoodListing>>),
      Block(FALSE, <<>>),
      Block(TRUE, <<BareListing, NullBeds>>),
      Block(TRUE, <<TextBeds, BareListing>>) }

\* pages with "Query Data" comment blocks
SmartPages ==
    { Page(NoneStr, <<>>, <<>>, bs, <<>>) :
        bs \in SeqsUpTo(BlockPool, MaxBlocks) }

\* a studio that is not released yet, with and without the expected rent
EarlyPriced ==
    Content(NoneStr, NoneStr, NoneStr, NoneStr, NoneStr,
            <<"S", "t", "u", "d", "i", "o", ",", " ", "$", "9", "0", "0", " ",
              "/", " ", "m", "o", "n", "t", "h", ",", " ", "N", "o", "t", " ",
              "A", "v", "a", "i", "l", "a", "b", "l", "e", ",", " ", "E", "a",
              "r", "l", "y", " ", "I", "n", "q", "u", "i", "r", "y", " ", "L",
              "i", "s", "t">>)
EarlyUnpriced ==
    Content(NoneStr, NoneStr, NoneStr, NoneStr, NoneStr,
            <<"S", "t", "u", "d", "i", "o", ",", " ", "N", "o", "t", " ", "A",
              "v", "a", "i", "l", "a", "b", "l", "e", ",", " ", "E", "a", "r",
              "l", "y", " ", "I", "n", "q", "u", "i", "r", "y", " ", "L", "i",
              "s", "t">>)

\* pages whose only container is such a studio
EarlyPages ==
    { Page(NoneStr, <<Unit(k, c)>>, <<>>, <<>>, <<>>) :
        k \in Kinds, c \in {EarlyPriced, EarlyUnpriced} }

\* a studio with its rent per month and no bath count
StudioMonth ==
    Content(NoneStr, NoneStr, NoneStr, NoneStr, NoneStr,
            <<"S", "t", "u", "d", "i", "o", " ", "A", ",", " ", "$", "9", "0",
              "0", " ", "/", " ", "m", "o", "n", "t", "h">>)

\* pages whose only container is that studio
StudioPages ==
    { Page(NoneStr, <<Unit(k, StudioMonth)>>, <<>>, <<>>, <<>>) : k \in Kinds }

Pages ==
    UnitPages \cup FallbackPages \cup SmartPages \cup EarlyPages
    \cup StudioPages

\* the page of a site at its own host
SiteUrl(site) == Scheme \o <<"w", "w", "w", ".">> \o site \o <<"/", "p", "l",
                                                               "a", "n", "s">>

\* a page of an unregistered host that names a registered site in its query
RefUrl == X \o <<"?", "r", "e", "f", "=", "y", "u", "g", "o", ".", "c", "o",
                 "m">>

\* a page of a registered host that names an earlier entry in its query
CrossUrl == Scheme \o <<"y", "u", "g", "o", ".", "c", "o", "m", "/", "r", "o",
                        "o", "m", "s", "?", "f", "r", "o", "m", "=", "w", "e",
                        "i", "d", "a", "a", "p", "a", "r", "t", "m", "e", "n",
                        "t", "s", ".", "c", "o", "m">>

PageUrls ==
    {SiteUrl(PARSERS[i].site) : i \in 1..Len(PARSERS)}
    \cup {X, RefUrl, CrossUrl}

\* urlparse(url).netloc, for a url that starts with https://
HostOf(url) ==
    LET rest == SubSeq(url, Len(Scheme) + 1, Len(url))
        ends == {i \in 1..Len(rest) : rest[i] \in {"/", "?", "#"}}
    IN  IF ends = {} THEN rest ELSE SubSeq(rest, 1, MinOf(ends) - 1)

InitParse ==
    /\ comp = "parse"
    /\ pc = "in"
    /\ StoreIdle
    /\ KeysIdle
    /\ AsmIdle
    /\ LinkIdle
    /\ pageUrl \in PageUrls
    /\ page \in Pages \cup {NoHtml}
    /\ parsed = <<>>
    /\ ManyIdle
    /\ NormIdle
    /\ CrawlIdle

ParseHtml ==
    /\ comp = "parse"
    /\ pc = "in"
    /\ parsed' = parse_html(pageUrl, page)
    /\ pc' = "done"
    /\ UNCHANGED <<comp, storeVars, keyVars, asmVars, linkVars, pageUrl, page,
                   manyVars, normVars, crawlVars>>

NextParse == ParseHtml

SpecParse == InitParse /\ [][NextParse]_vars

----------------------------------------------------------------------------

(* Properties of the Record Assembler (SpecAsm) *)

\* C1: _mk_record returns either None or a record whose price lies in
\* [300, 6000], for integer and for text prices; the prices 250 and 7000
\* yield None.
PlausibilityGate ==
    pc = "done" =>
        /\ rec = NoRecord \/ (300 <= rec.price /\ rec.price <= 6000)
        /\ args.price \in {PyInt(250), PyInt(7000)} => rec = NoRecord

\* a text price that was normalized and accepted, and so produced a record
PlausibilityGateWitness ==
    /\ pc = "done"
    /\ args.price.k = "str"
    /\ rec # NoRecord
    /\ rec.price = 600

\* C26: every record _mk_record returns has beds equal to an integer >= 0
\* and baths equal to a number >= 0, never an absent value: an empty or None
\* marker gives 0 / 0.0 and every other argument goes through normalize_beds
\* / normalize_baths
BedsBathsPresent ==
    (comp = "asm" /\ pc = "done" /\ rec # NoRecord) =>
        /\ rec.beds # None
        /\ rec.beds >= 0
        /\ rec.baths # NoFloat
        /\ rec.baths.m >= 0
        /\ args.beds \in {PyNone, PyStr(<<>>)} => rec.beds = 0
        /\ args.baths \in {PyNone, PyStr(<<>>)} => rec.baths = Float(0, 0)
        /\ args.beds \notin {PyNone, PyStr(<<>>)}
              => rec.beds = normalize_beds(args.beds)
        /\ args.baths \notin {PyNone, PyStr(<<>>)}
              => rec.baths = normalize_baths(args.baths)

----------------------------------------------------------------------------
(* Properties of the Idempotent Store (SpecStore) *)

NonKey(r) ==
    <<r.company, r.title, r.price, r.beds, r.baths, r.address,
      r.last_scraped_at>>

\* the last record of the submitted batch that carries the url u
LastWith(u) ==
    CHOOSE k \in 1..Len(valid) :
        /\ valid[k].url = u
        /\ \A j \in (k + 1)..Len(valid) : valid[j].url # u

\* C2: after a record has been persisted, again or for the first time, the
\* table holds exactly one row for its url, and the non-key columns of that
\* row are the values of the most recent submission for that url.
LastWriteWins ==
    \A k \in 1..Len(valid) :
        LET u == valid[k].url
        IN  /\ Cardinality(RowsWithUrl(table, u)) = 1
            /\ \A i \in RowsWithUrl(table, u) :
                  NonKey(table[i]) = NonKey(TupleOf(valid[LastWith(u)]))

\* a call that found a row for the url of one of its records and replaced
\* different field values in it
LastWriteWinsWitness ==
    /\ calls = 2
    /\ \E i \in 1..Len(tableBefore), j \in 1..Len(table) :
          /\ tableBefore[i].url = table[j].url
          /\ table[j].url \in {valid[k].url : k \in 1..Len(valid)}
          /\ tableBefore[i].beds # table[j].beds

\* C6: no stored row has a price that is missing or outside [300, 6000].
StoredPricesPlausible ==
    \A i \in 1..Len(table) : 300 <= table[i].price /\ table[i].price <= 6000

\* C7: the value returned by insert_listings is the number of distinct rows
\* the call inserted or updated; when it is 0 nothing was written.
ReturnsRowsWritten ==
    pc = "done" =>
        /\ ret = Cardinality(written)
        /\ ret = 0 => table = tableBefore

\* C28: the urls of the records insert_listings submits after
\* _stabilize_unit_urls are pairwise distinct, so every record of the batch
\* ends up in a row of its own.
BatchUrlsDistinct ==
    pc = "done" =>
        /\ \A i, j \in 1..Len(valid) : valid[i].url = valid[j].url => i = j
        /\ Cardinality(written) = Len(valid)

\* C8: the table has at most one row per url, and every url that is stored
\* stays stored: the set of stored urls only grows.
RowsNeverRemoved ==
    /\ [](\A i, j \in 1..Len(table) : table[i].url = table[j].url => i = j)
    /\ [][TableUrls(table) \subseteq TableUrls(table')]_vars

\* a second call that added a row to a table that already had one
RowsNeverRemovedWitness ==
    /\ calls = 2
    /\ tableBefore # <<>>
    /\ Len(table) > Len(tableBefore)

----------------------------------------------------------------------------
(* Properties of synthetic-key disambiguation (SpecKeys) *)

SameGroup(i, j) == listings[i].url = listings[j].url

Shared(k) == \E i \in 1..Len(listings) : i # k /\ SameGroup(i, k)

\* C3: the records of a batch that share a url get pairwise distinct urls,
\* each of which begins with the shared url.
UniqueUnderCoLocation ==
    pc = "done" =>
        \A i, j \in 1..Len(listings) :
            (i # j /\ SameGroup(i, j)) =>
                /\ stabilized[i].url # stabilized[j].url
                /\ StartsWith(stabilized[i].url, listings[i].url)

\* two records that agree in url, title and price
UniqueUnderCoLocationWitness ==
    /\ pc = "done"
    /\ \E i, j \in 1..Len(listings) : i # j /\ listings[i] = listings[j]

\* original_url + "#unit-" + slug(title) + "-" + price
PlainKey(k) ==
    listings[k].url \o <<"#", "u", "n", "i", "t",
        "-">> \o Slug(TitleOf(listings[k])) \o <<"-">>
    \o Str(PriceOf(listings[k]))

\* the record k is the first of its group with its title and price
FirstOfItsKind(k) ==
    \A i \in 1..(k - 1) :
        SameGroup(i, k) =>
            ~(listings[i].title = listings[k].title
              /\ listings[i].price = listings[k].price)

\* the urls given to the records of k's group that come before k
EarlierKeys(k) ==
    {stabilized[i].url : i \in {j \in 1..(k - 1) : SameGroup(j, k)}}

\* C4 as stated: the first record of a group with a given (title, price)
\* gets the key without a suffix.
FirstOfKindGetsPlainKey ==
    pc = "done" =>
        \A k \in 1..Len(listings) :
            (Shared(k) /\ FirstOfItsKind(k)) => stabilized[k].url = PlainKey(k)

\* C4: a record of a shared url gets the plain key unless an earlier record of
\* its group was given exactly that url, and otherwise the plain key followed
\* by "-" and the smallest number from 2 on that gives a url not yet given;
\* (A1, 1200) and (B2, 1300) on https://x.com/plans get
\* https://x.com/plans#unit-a1-1200 and https://x.com/plans#unit-b2-1300.
KeyFormat ==
    pc = "done" =>
        /\ \A k \in 1..Len(listings) :
              Shared(k) =>
                  \/ /\ PlainKey(k) \notin EarlierKeys(k)
                     /\ stabilized[k].url = PlainKey(k)
                  \/ /\ PlainKey(k) \in EarlierKeys(k)
                     /\ \E n \in 2..(Len(listings) + 1) :
                           /\ stabilized[k].url
                                = PlainKey(k) \o <<"-">> \o Str(n)
                           /\ stabilized[k].url \notin EarlierKeys(k)
                           /\ \A m \in 2..(n - 1) :
                                 PlainKey(k) \o <<"-">> \o Str(m)
                                     \in EarlierKeys(k)
        /\ listings = <<Rec(X, T_A1, 1200, 1), Rec(X, T_B2, 1300, 1)>> =>
              /\ stabilized[1].url = <<"h", "t", "t", "p", "s", ":", "/",
                  "/", "x", ".", "c", "o", "m", "/", "p", "l", "a", "n", "s",
                  "#", "u", "n", "i", "t", "-", "a", "1", "-", "1", "2", "0",
                  "0">>
              /\ stabilized[2].url = <<"h", "t", "t", "p", "s", ":", "/",
                  "/", "x", ".", "c", "o", "m", "/", "p", "l", "a", "n", "s",
                  "#", "u", "n", "i", "t", "-", "b", "2", "-", "1", "3", "0",
                  "0">>

\* a record that is the first with its title and price and still gets a
\* suffix, because its plain key was given to an earlier record
KeyFormatWitness ==
    /\ pc = "done"
    /\ \E k \in 1..Len(listings) :
          /\ Shared(k)
          /\ FirstOfItsKind(k)
          /\ stabilized[k].url = PlainKey(k) \o <<"-">> \o Str(2)

Orderings(n) ==
    {f \in [1..n -> 1..n] : \A a, b \in 1..n : f[a] = f[b] => a = b}

UrlSet(ls) == {ls[i].url : i \in 1..Len(ls)}

\* C5: the records of one page, presented in any order, get the same set of
\* keys.
KeysIndependentOfOrder ==
    (pc = "done" /\ \A i, j \in 1..Len(listings) : SameGroup(i, j)) =>
        \A f \in Orderings(Len(listings)) :
            UrlSet(StabilizeUnitUrls([i \in 1..Len(listings) |->
                                        listings[f[i]]]))
                = UrlSet(stabilized)

\* C29: _stabilize_unit_urls returns as many records as it was given, in the
\* same order; every field but the url is as it was, and a record whose url
\* no other record of the batch has keeps its url.
OnlyUrlsChange ==
    pc = "done" =>
        /\ Len(stabilized) = Len(listings)
        /\ \A k \in 1..Len(listings) :
              /\ [stabilized[k] EXCEPT !.url = listings[k].url] = listings[k]
              /\ GroupOf(listings, listings[k].url) = {k} =>
                    stabilized[k].url = listings[k].url

\* a batch with a record alone on its url next to two records of another url,
\* whose urls were rewritten
OnlyUrlsChangeWitness ==
    /\ pc = "done"
    /\ \E k \in 1..Len(listings) : GroupOf(listings, listings[k].url) = {k}
    /\ \E j \in 1..Len(listings) : stabilized[j].url # listings[j].url

----------------------------------------------------------------------------
(* Properties of the Crawl Frontier Builder (SpecLinks) *)

\* the patterns in force: the caller's, or else those of the first rule of
\* the table whose site occurs in the seed host, or else none
RuleFor(host) ==
    {i \in 1..Len(SITE_RULES) :
        /\ Contains(host, SITE_RULES[i].site)
        /\ \A j \in 1..(i - 1) : ~Contains(host, SITE_RULES[j].site)}

DenyInForce ==
    IF denyPat # NoPatterns THEN Range(denyPat)
    ELSE UNION {Range(SITE_RULES[i].deny) : i \in RuleFor(startUrl.host)}

AllowInForce ==
    IF allowPat # NoPatterns THEN Range(allowPat)
    ELSE UNION {Range(SITE_RULES[i].allow) : i \in RuleFor(startUrl.host)}

\* deny-then-allow on path + "?" + query
ShouldKeep(pathq) ==
    /\ \A d \in DenyInForce : ~Contains(pathq, d)
    /\ AllowInForce = {} \/ \E a \in AllowInForce : Contains(pathq, a)

\* C9: a candidate link is returned if and only if its path+"?"+query matches
\* no deny pattern and the allow list is empty or one of its patterns matches
\* (the cap of 200 aside); with deny "/blog" and allow "/listings" the link
\* "/blog/listings/foo" is not returned.
DenyThenAllow ==
    (pc = "done" /\ fetched) =>
        /\ \A i \in 1..Len(anchors) :
              IsCandidate(startUrl, anchors[i], sameDomain) =>
                  LET u == UrlJoin(startUrl, anchors[i])
                  IN  /\ UrlText(u) \in Range(out) => ShouldKeep(PathQ(u))
                      /\ (ShouldKeep(PathQ(u)) /\ Len(out) < MaxResults)
                            => UrlText(u) \in Range(out)
        /\ (denyPat = << <<"/", "b", "l", "o",
            "g">> >> /\ allowPat = << <<"/", "l", "i", "s", "t", "i", "n",
            "g", "s">> >>) =>
              \A i \in 1..Len(out) : ~EndsWith(out[i], <<"/", "b", "l", "o",
                  "g", "/", "l", "i", "s", "t", "i", "n", "g", "s", "/", "f",
                  "o", "o">>)

\* a page with the link of the example and a link that is kept
DenyThenAllowWitness ==
    /\ pc = "done"
    /\ fetched
    /\ denyPat = << <<"/", "b", "l", "o", "g">> >>
    /\ allowPat = << <<"/", "l", "i", "s", "t", "i", "n", "g", "s">> >>
    /\ RelHref(<<"/", "b", "l", "o", "g", "/", "l", "i", "s", "t", "i", "n",
        "g", "s", "/", "f", "o", "o">>, <<>>, <<>>) \in Range(anchors)
    /\ out = << <<"h", "t", "t", "p", "s", ":", "/", "/", "x", ".", "c", "o",
        "m", "/", "l", "i", "s", "t", "i", "n", "g", "s", "/", "f", "o",
        "o">> >>

\* the links that passed filtering, in the order of the anchors
Passed ==
    Collect(startUrl, anchors, sameDomain,
            ResolveAllow(startUrl.host, allowPat, denyPat),
            ResolveDeny(startUrl.host, allowPat, denyPat))

FirstIndex(s, x) ==
    CHOOSE i \in 1..Len(s) : s[i] = x /\ \A j \in 1..(i - 1) : s[j] # x

FirstSeenOrder(passed) ==
    /\ \A a, b \in 1..Len(out) : out[a] = out[b] => a = b
    /\ Len(out) <= MaxResults
    /\ Range(out) \subseteq Range(passed)
    /\ \A a \in 1..(Len(out) - 1) :
          FirstIndex(passed, out[a]) < FirstIndex(passed, out[a + 1])
    /\ \A j \in 1..Len(passed) :
          \/ passed[j] \in Range(out)
          \/ /\ Len(out) = MaxResults
             /\ j > FirstIndex(passed, out[MaxResults])

\* C10: the returned list has no duplicate, keeps the links that passed
\* filtering in first-seen order, and is the first 200 of them.
DedupedAndCapped == (pc = "done" /\ fetched) => FirstSeenOrder(Passed)

\* a page with repeated links and more than 200 different ones
DedupedAndCappedWitness ==
    /\ pc = "done"
    /\ fetched
    /\ Len(out) = MaxResults
    /\ Cardinality(Range(Passed)) > MaxResults
    /\ Cardinality(Range(Passed)) < Len(Passed)

\* the lists of patterns in force: the caller's when the caller supplied
\* them, else those of the first table entry whose site identifier occurs in
\* the seed host, else none
AllowList ==
    IF allowPat # NoPatterns THEN allowPat
    ELSE IF RuleFor(startUrl.host) = {} THEN NoPatterns
    ELSE SITE_RULES[CHOOSE i \in RuleFor(startUrl.host) : TRUE].allow

DenyList ==
    IF denyPat # NoPatterns THEN denyPat
    ELSE IF RuleFor(startUrl.host) = {} THEN NoPatterns
    ELSE SITE_RULES[CHOOSE i \in RuleFor(startUrl.host) : TRUE].deny

\* the links that survive the scheme, asset, domain and fragment checks
Survivors ==
    LET kept == SelectSeq(anchors,
                          LAMBDA h : IsCandidate(startUrl, h, sameDomain))
    IN  [i \in 1..Len(kept) |-> UrlText(UrlJoin(startUrl, kept[i]))]

\* C20: the patterns the caller did not supply are those of the first table
\* entry whose site identifier is a substring of the seed host, the
\* patterns the caller supplied are used as they are, and when the caller
\* supplied none and no entry matches every link that survived the scheme,
\* asset, domain and fragment checks is kept
PatternsResolved ==
    (comp = "links" /\ pc = "done" /\ fetched) =>
        /\ FirstSeenOrder(Collect(startUrl, anchors, sameDomain, AllowList,
                                  DenyList))
        /\ (/\ allowPat = NoPatterns
            /\ denyPat = NoPatterns
            /\ RuleFor(startUrl.host) = {}) => FirstSeenOrder(Survivors)

\* a seed host that holds the site identifiers of both entries, a caller
\* who supplied deny patterns only, and a page of which the allow patterns
\* of the first entry keep one link and drop another
PatternsResolvedWitness ==
    /\ comp = "links"
    /\ pc = "done"
    /\ fetched
    /\ \A i \in 1..Len(SITE_RULES) : Contains(startUrl.host, SITE_RULES[i].site)
    /\ allowPat = NoPatterns
    /\ denyPat = << <<"/", "b", "l", "o", "g">> >>
    /\ out = << UrlText([scheme |-> Scheme, host |-> startUrl.host,
                         path |-> <<"/", "l", "i", "s", "t", "i", "n", "g",
                                    "s", "/", "f", "o", "o">>,
                         query |-> <<>>, frag |-> <<>>]) >>
    /\ RelHref(<<"/", "a", "b", "o", "u", "t">>, <<>>, <<>>) \in Range(anchors)

----------------------------------------------------------------------------
(* Properties of the returned urls (SpecShapes) *)

\* urlparse(url).netloc of a returned url
TextNetloc(url) == IF StartsWith(url, Scheme) THEN HostOf(url) ELSE <<>>

\* urlparse(url).fragment of a returned url
TextFragment(url) ==
    IF \E i \in 1..Len(url) : url[i] = "#"
    THEN SubSeq(url, MinOf({i \in 1..Len(url) : url[i] = "#"}) + 1, Len(url))
    ELSE <<>>

\* what follows the scheme and the netloc of a returned url
AfterNetloc(url) ==
    IF StartsWith(url, Scheme)
    THEN SubSeq(url, Len(Scheme) + Len(HostOf(url)) + 1, Len(url))
    ELSE SubSeq(url, MinOf({i \in 1..Len(url) : url[i] = ":"}) + 1, Len(url))

\* the part of s before the first query or fragment mark
BeforeMarks(s) ==
    IF \E i \in 1..Len(s) : s[i] \in {"?", "#"}
    THEN SubSeq(s, 1, MinOf({i \in 1..Len(s) : s[i] \in {"?", "#"}}) - 1)
    ELSE s

\* urlparse(url).path of a returned url
TextPath(url) == BeforeMarks(AfterNetloc(url))

IsMailOrTel(url) ==
    \/ StartsWith(Lower(url), <<"m", "a", "i", "l", "t", "o", ":">>)
    \/ StartsWith(Lower(url), <<"t", "e", "l", ":">>)

NoAssetPath ==
    (comp = "links" /\ pc = "done") =>
        \A i \in 1..Len(out) :
            \A ext \in AssetExts : ~EndsWith(Lower(TextPath(out[i])), ext)

\* C23: every returned url has no fragment or a fragment that contains
\* "unit_", "floorplan" or "detail" in any case, and a link whose fragment is
\* another one is not returned
OnlyAnchorFragments ==
    (comp = "links" /\ pc = "done") =>
        /\ \A i \in 1..Len(out) :
              \/ TextFragment(out[i]) = <<>>
              \/ \E w \in {<<"u", "n", "i", "t", "_">>, <<"f", "l", "o", "o",
                                                          "r", "p", "l", "a",
                                                          "n">>, <<"d", "e",
                                                                   "t", "a",
                                                                   "i", "l">>} :
                    Contains(Lower(TextFragment(out[i])), w)
        /\ \A i \in 1..Len(anchors) :
              (/\ anchors[i].kind = "rel"
               /\ anchors[i].frag # <<>>
               /\ \A w \in {<<"u", "n", "i", "t", "_">>, <<"f", "l", "o", "o",
                                                           "r", "p", "l", "a",
                                                           "n">>, <<"d", "e",
                                                                    "t", "a",
                                                                    "i", "l">>} :
                     ~Contains(Lower(anchors[i].frag), w))
                 => UrlText(UrlJoin(startUrl, anchors[i])) \notin Range(out)

\* a page with a link "#top", which is discarded, and a link with the
\* fragment "Floorplan-B", which is returned
OnlyAnchorFragmentsWitness ==
    /\ comp = "links"
    /\ pc = "done"
    /\ startUrl = ShapeSeed
    /\ RelHref(<<>>, <<>>, <<"t", "o", "p">>) \in Range(anchors)
    /\ out = << UrlText(UrlJoin(startUrl, RelHref(<<"/", "a">>, <<>>,
                                                  <<"F", "l", "o", "o", "r",
                                                    "p", "l", "a", "n", "-",
                                                    "B">>))) >>

----------------------------------------------------------------------------
(* Properties of parse_html (SpecParse) *)

\* the strategy the registry gives for the host of the url alone
HostStrategy(url) ==
    LET hits == {i \in 1..Len(PARSERS) : Contains(HostOf(url), PARSERS[i].site)}
    IN  IF hits = {} THEN "parse_default" ELSE PARSERS[MinOf(hits)].fn

\* C12: parse_html applies the strategy of the first registry entry whose
\* site identifier is a substring of the host of the page url, and the
\* generic strategy when the host holds no registered identifier, whatever
\* the path or the query of the url
DispatchByHost ==
    pc = "done" => parsed = Apply(HostStrategy(pageUrl), pageUrl, Soup(page))

TierRank(kind) ==
    CASE kind = "structured" -> 1
      [] kind = "embedded"   -> 2
      [] kind = "text"       -> 3

\* the tiers of the strategy that handled the page
PageTiers == TiersOf(PickParser(pageUrl), pageUrl, Soup(page))

\* tier k decided the outcome: no tier before it gave a record or raised,
\* and it gave a record or raised unless it is the last tier
Decides(tiers, k) ==
    /\ \A i \in 1..(k - 1) : tiers[i].recs = <<>> /\ ~tiers[i].raised
    /\ k < Len(tiers) => tiers[k].recs # <<>> \/ tiers[k].raised

\* C13: the tiers of a strategy are tried in the order structured selector,
\* embedded data, full text, and extraction stops at the first tier that
\* gives a record: what parse_html returns is the outcome of one tier, every
\* tier before it gave no record, and no tier after it adds a record
TierOrder ==
    pc = "done" =>
        LET tiers == PageTiers
        IN  /\ \A i, j \in 1..Len(tiers) :
                  i < j => TierRank(tiers[i].kind) <= TierRank(tiers[j].kind)
            /\ \E k \in 1..Len(tiers) :
                  /\ Decides(tiers, k)
                  /\ parsed.raised = tiers[k].raised
                  /\ parsed.recs = tiers[k].recs

\* the structured tier of a three-tier strategy gave the records although
\* the full-text tier would have given others
TierOrderWitness ==
    /\ pc = "done"
    /\ PickParser(pageUrl) = "parse_yugo"
    /\ LET tiers == PageTiers
       IN  /\ Len(tiers) = 3
           /\ tiers[1].recs # <<>>
           /\ tiers[3].recs # <<>>
           /\ tiers[3].recs # tiers[1].recs
           /\ parsed.recs = tiers[1].recs

\* every container of the page holds the unit of the end-to-end scenario
ScenarioPage ==
    /\ page \in UnitPages
    /\ \A i \in 1..Len(page.items) :
          \E c \in {InText, InElements} : page.items[i] = Unit(page.items[i].sel, c)

\* C15: the unit text "2 Beds, 1.5 Bath, $1,499 - $1,549 / month" gives, under
\* every strategy that accepts it, records whose price is the lower bound
\* 1499 or the rounded mean 1524 of the range, never another value
RangePriceLowOrMean ==
    (pc = "done" /\ ScenarioPage) =>
        \A i \in 1..Len(parsed.recs) : parsed.recs[i].price \in {1499, 1524}

\* the url is the page of a registered site at its own host
RegisteredUrl(url) == \E i \in 1..Len(PARSERS) : url = SiteUrl(PARSERS[i].site)

\* C18: a page of a registered site whose visible text holds a plausible
\* "$price" never yields an empty result, since every registered strategy
\* falls back from the structured tier to the embedded data and from there
\* to the full text
RegisteredNeverEmpty ==
    (/\ pc = "done"
     /\ RegisteredUrl(pageUrl)
     /\ PricesFromText(PageText(Soup(page))) # <<>>
     /\ ~parsed.raised)
        => parsed.recs # <<>>

\* C19: parse_html never raises, whatever block or container of the page is
\* malformed
ParseNeverRaises == pc = "done" => ~parsed.raised

\* the text of the unit holds "studio", "not available" and "early inquiry"
IsEarlyStudio(c) ==
    /\ Contains(Lower(VisibleText(c)), <<"s", "t", "u", "d", "i", "o">>)
    /\ Contains(Lower(VisibleText(c)), <<"n", "o", "t", " ", "a", "v", "a",
                                         "i", "l", "a", "b", "l", "e">>)
    /\ Contains(Lower(VisibleText(c)), <<"e", "a", "r", "l", "y", " ", "i",
                                         "n", "q", "u", "i", "r", "y">>)

\* C24: in every strategy a unit whose text holds "studio" together with
\* "not available" and "early inquiry" is skipped, so a page whose only unit
\* is such a unit gives no record
EarlyStudioSkipped ==
    (/\ comp = "parse"
     /\ pc = "done"
     /\ page \in EarlyPages
     /\ IsEarlyStudio(page.items[1]))
        => (~parsed.raised /\ parsed.recs = <<>>)

\* the text of the unit holds "studio" and no bath count
IsBathlessStudio(c) ==
    /\ Contains(Lower(VisibleText(c)), <<"s", "t", "u", "d", "i", "o">>)
    /\ ParseBaths(VisibleText(c)) = Float(0, 0)

\* C25: in the structured tier of every strategy a unit whose text holds
\* "studio" and no bath count gives a record with beds = 0 and baths = 1.0
StudioOneBath ==
    (/\ comp = "parse"
     /\ pc = "done"
     /\ page # NoHtml
     /\ page.items # <<>>
     /\ \A i \in 1..Len(page.items) : IsBathlessStudio(page.items[i])
     /\ PageTiers[1].kind = "structured"
     /\ PageTiers[1].recs # <<>>
     /\ ~parsed.raised)
        => \A i \in 1..Len(parsed.recs) :
              /\ parsed.recs[i].beds = 0
              /\ parsed.recs[i].baths = Float(1, 0)

----------------------------------------------------------------------------

(* parse_html_many applied to one call *)

MaxInputs == 2

\* a page whose one article holds the unit of the scenario, a page with loose
\* text only, a comment block with a null "bedrooms", a good comment block
ArticlePage == Page(NoneStr, <<Unit("article", InText)>>, <<>>, <<>>, <<>>)
LoosePage == Page(NoneStr, <<>>, <<>>, <<>>, LooseText)
NullBedsPage ==
    Page(NoneStr, <<>>, <<>>, <<Block(TRUE, <<BareListing, NullBeds>>)>>, <<>>)
GoodBlockPage == Page(NoneStr, <<>>, <<>>, <<Block(TRUE,
                                             <<GoodListing>>)>>, <<>>)

ManyUrls == {SiteUrl(<<"y", "u", "g", "o", ".", "c", "o",
                       "m">>), SiteUrl(<<"s", "m", "a", "r", "t", "d", "i",
                                         "g", "s", ".", "c", "o", "m">>), X}
ManyPages == {ArticlePage, LoosePage, NullBedsPage, GoodBlockPage, NoHtml}
ManyItems == {<<u, h>> : u \in ManyUrls, h \in ManyPages}

\* the items of a dict: no url twice
DictItems ==
    {its \in SeqsUpTo(ManyItems, MaxInputs) :
        \A i, j \in 1..Len(its) : i # j => its[i][1] # its[j][1]}

\* the calls: (url, html), ({url: html, ...}) and ([(url, html), ...])
ManyCalls ==
    {[form |-> "pair", items |-> <<it>>] : it \in ManyItems}
    \cup {[form |-> "map", items |-> its] : its \in DictItems}
    \cup {[form |-> "list", items |-> its] : its \in DictItems}

InitMany ==
    /\ comp = "many"
    /\ pc = "in"
    /\ StoreIdle
    /\ KeysIdle
    /\ AsmIdle
    /\ LinkIdle
    /\ ParseIdle
    /\ manyCall \in ManyCalls
    /\ manyOut = <<>>
    /\ NormIdle
    /\ CrawlIdle

ParseHtmlMany ==
    /\ comp = "many"
    /\ pc = "in"
    /\ manyOut' = parse_html_many(manyCall)
    /\ pc' = "done"
    /\ UNCHANGED <<comp, storeVars, keyVars, asmVars, linkVars, parseVars,
                   manyCall, normVars, crawlVars>>

NextMany == ParseHtmlMany

SpecMany == InitMany /\ [][NextMany]_vars

\* the priced records of one input, none when its extraction raises
ValidOf(it) ==
    LET r == parse_html(it[1], it[2])
    IN  IF r.raised THEN <<>> ELSE SelectSeq(r.recs, LAMBDA x : x.price > 0)

\* C14: parse_html_many, given one (url, content) pair or a mapping of urls
\* to content, does not raise and returns the concatenation, in input order,
\* of the priced records of the inputs whose extraction did not raise; an
\* input whose extraction raises contributes nothing and leaves the records
\* of the other inputs as they are
ManyConcatenates ==
    (pc = "done" /\ manyCall.form \in {"pair", "map"}) =>
        /\ ~manyOut.raised
        /\ manyOut.recs =
              Flatten([i \in 1..Len(manyCall.items) |-> ValidOf(manyCall.items[i])])

\* a mapping whose first input raises and whose second input gives records
ManyConcatenatesWitness ==
    /\ pc = "done"
    /\ manyCall.form = "map"
    /\ Len(manyCall.items) = 2
    /\ parse_html(manyCall.items[1][1], manyCall.items[1][2]).raised
    /\ ValidOf(manyCall.items[2]) # <<>>
    /\ manyOut = Ok(ValidOf(manyCall.items[2]))

----------------------------------------------------------------------------
(* normalize_price applied to one text *)

MaxNormLen == 4

NormChars == {"1", "2", ",", ".", "$", "-", " ", "a"}

\* format(n, ",") on the digits of n
RECURSIVE WithCommas(_)
WithCommas(d) ==
    IF Len(d) <= 3 THEN d
    ELSE WithCommas(SubSeq(d, 1, Len(d) - 3)) \o <<",">>
             \o SubSeq(d, Len(d) - 2, Len(d))

RangeInts == {0, 1, 2, 999, 1499, 1500, 1549, 1550, 12000}

\* 2^53, 2^53 + 1 and 2^53 + 3
WideNums == {<<"9", "0", "0", "7", "1", "9", "9", "2", "5", "4", "7", "4", "0",
               "9", "9", "2">>, <<"9", "0", "0", "7", "1", "9", "9", "2", "5",
                                  "4", "7", "4", "0", "9", "9", "3">>, <<"9",
                                                                         "0", "0", "7", "1", "9", "9", "2", "5", "4", "7", "4", "0", "9", "9", "5">>}

\* the bounds of the ranges, as digits
RangeNums == {PyToStr(PyInt(n)) : n \in RangeInts} \cup WideNums

\* "$X - $Y"
RangeText(x, y) == <<"$">> \o WithCommas(x) \o <<" ", "-", " ",
                                                 "$">> \o WithCommas(y)

NormTexts ==
    SeqsUpTo(NormChars, MaxNormLen)
    \cup {RangeText(x, y) : x, y \in RangeNums}
    \cup {RangeUnit, LooseText, <<"C", "a", "l", "l", " ", "f", "o", "r", " ",
                                  "p", "r", "i", "c", "i", "n", "g">>}

InitNorm ==
    /\ comp = "norm"
    /\ pc = "in"
    /\ StoreIdle
    /\ KeysIdle
    /\ AsmIdle
    /\ LinkIdle
    /\ ParseIdle
    /\ ManyIdle
    /\ priceText \in NormTexts
    /\ normPrice = None
    /\ CrawlIdle

NormalizePrice ==
    /\ comp = "norm"
    /\ pc = "in"
    /\ normPrice' = normalize_price(priceText)
    /\ pc' = "done"
    /\ UNCHANGED <<comp, storeVars, keyVars, asmVars, linkVars, parseVars,
                   manyVars, priceText, crawlVars>>

NextNorm == NormalizePrice

SpecNorm == InitNorm /\ [][NextNorm]_vars

HasDigit(t) == \E i \in 1..Len(t) : IsDigit(t[i])

\* r is an integer nearest to the mean of the values vs
NearestToMean(r, vs) ==
    LET k == MaxScale(vs)
        s == SumScaled(vs, k)
        n == Len(vs) * Pow10(k)
    IN  2 * r * n - n <= 2 * s /\ 2 * s <= 2 * r * n + n

\* a <= b for integers in binary without leading zeros
LeqBits(a, b) ==
    \/ Len(a) < Len(b)
    \/ /\ Len(a) = Len(b)
       /\ \/ a = b
          \/ \E i \in 1..Len(a) :
                a[i] < b[i] /\ \A j \in 1..(i - 1) : a[j] = b[j]

\* the numeric substrings of a text
NumsOf(t) == FindNums(ReplaceChar(t, ",", <<>>))

\* the text holds a number that the result carries in binary
HasWide(t) == \E i \in 1..Len(NumsOf(t)) : ~Narrow(NumsOf(t)[i])

\* the result of normalize_price for the text t, in binary
ResultBits(t, r) == IF HasWide(t) THEN r.wide ELSE BitsOf(PyToStr(PyInt(r)))

\* C16: normalize_price gives None for a text without a digit, and for any
\* other text the mean of its numeric substrings (commas stripped) rounded
\* to the nearest integer; for every "$X - $Y" with integers X <= Y the
\* result lies between X and Y
NormalizePriceMean ==
    pc = "done" =>
        /\ ~HasDigit(priceText) => normPrice = None
        /\ (HasDigit(priceText) /\ ~HasWide(priceText)) =>
              /\ normPrice # None
              /\ NearestToMean(normPrice,
                               [i \in 1..Len(NumsOf(priceText)) |->
                                   NumVal(NumsOf(priceText)[i])])
        /\ \A x, y \in RangeNums :
              (LeqBits(BitsOf(x), BitsOf(y)) /\ priceText = RangeText(x, y)) =>
                  /\ LeqBits(BitsOf(x), ResultBits(priceText, normPrice))
                  /\ LeqBits(ResultBits(priceText, normPrice), BitsOf(y))

----------------------------------------------------------------------------

(* scraper_selenium.py: scrape_site *)

MAX_LINKS_PER_SITE == 120

\* the text of the seed url
SeedText(start) ==
    Scheme \o start.host \o start.path
    \o (IF start.query # <<>> THEN <<"?">> \o start.query ELSE <<>>)

\* the candidates are the discovered links as they are
NoFallback(start, discovered) == discovered

\* if not discovered: discovered = [start_url]
Candidates(start, discovered) ==
    IF discovered = <<>> THEN <<SeedText(start)>> ELSE discovered

\* discovered[:MAX_LINKS_PER_SITE]
Capped(links) == SubSeq(links, 1, Min(Len(links), MAX_LINKS_PER_SITE))

\* parse_html_many(link, html)
ResultsOf(link, html) ==
    parse_html_many([form |-> "pair", items |-> << <<link, html>> >>])

\* the rows insert_listings hands to executemany
ValidRows(results) ==
    IF FilterPriced(results) = <<>> THEN <<>>
    ELSE StabilizeUnitUrls(FilterPriced(results))

----------------------------------------------------------------------------
(* scrape_site applied to one seed *)

MaxLinks == 2

CrawlSeeds ==
    { [host |-> <<"x", ".", "c", "o", "m">>, path |-> <<"/", "p", "l", "a",
                                                        "n", "s">>, query |-> <<>>],
      [host |-> <<"x", ".", "c", "o", "m">>, path |-> <<"/", "p", "l", "a",
                                                        "n", "s", ".", "p",
                                                        "d", "f">>, query |-> <<>>] }

CrawlHrefs ==
    { RelHref(<<"/", "l", "i", "s", "t", "i", "n", "g", "s", "/", "f", "o",
                "o">>, <<>>, <<>>), RelHref(<<"/", "a", "b", "o", "u",
                                              "t">>, <<>>, <<>>) }

\* what the browser renders for a link: a page with a priced unit or a page
\* without a price
UnpricedPage == Page(NoneStr, <<Unit("article", Unpriced)>>, <<>>, <<>>, <<>>)
CrawlPages == {ArticlePage, UnpricedPage}

InitCrawl ==
    /\ comp = "crawl"
    /\ pc = "in"
    /\ dbExists = TRUE
    /\ table = <<>>
    /\ valid = <<>>
    /\ ret = None
    /\ written = {}
    /\ calls = 0
    /\ tableBefore = <<>>
    /\ KeysIdle
    /\ AsmIdle
    /\ startUrl \in CrawlSeeds
    /\ fetched \in BOOLEAN
    /\ sameDomain = TRUE
    /\ allowPat \in AllowLists
    /\ denyPat = NoPatterns
    /\ anchors \in SeqsUpTo(CrawlHrefs, MaxLinks)
    /\ out = <<>>
    /\ ParseIdle
    /\ ManyIdle
    /\ NormIdle
    /\ driverAlive = TRUE
    /\ frontier = <<>>
    /\ pos = 0
    /\ attempted = <<>>
    /\ total = 0
    /\ crawlPc = "start"
    /\ siteNo = 1
    /\ mainPc = "scrape"
    /\ driver = 1
    /\ retired = {}

\* the call of discover_links and the fallback to the seed url
CrawlDiscover ==
    /\ comp = "crawl"
    /\ crawlPc = "start"
    /\ out' = DiscoverLinks(startUrl, fetched, anchors, sameDomain,
                            allowPat, denyPat)
    /\ frontier' = Capped(Candidates(startUrl, out'))
    /\ pos' = 1
    /\ crawlPc' = "loop"
    /\ UNCHANGED mainVars
    /\ UNCHANGED <<comp, pc, storeVars, keyVars, asmVars, startUrl, fetched,
                   sameDomain, allowPat, denyPat, anchors, parseVars,
                   manyVars, normVars, driverAlive, attempted, total>>

\* the browser dies (the environment)
DriverCrash ==
    /\ comp = "crawl"
    /\ crawlPc \in {"start", "loop"}
    /\ driverAlive
    /\ driverAlive' = FALSE
    /\ UNCHANGED mainVars
    /\ UNCHANGED <<comp, pc, storeVars, keyVars, asmVars, linkVars,
                   parseVars, manyVars, normVars, frontier, pos, attempted,
                   total, crawlPc>>

AtLink == comp = "crawl" /\ crawlPc = "loop" /\ pos <= Len(frontier)

\* if not check_driver_health(driver): break
BreakOnDeadDriver ==
    /\ AtLink
    /\ ~driverAlive
    /\ crawlPc' = "broke"
    /\ pc' = "done"
    /\ retired' = retired \cup {driver}
    /\ UNCHANGED <<siteNo, mainPc, driver>>
    /\ UNCHANGED <<comp, storeVars, keyVars, asmVars, linkVars, parseVars,
                   manyVars, normVars, driverAlive, frontier, pos, attempted,
                   total>>

\* the link ends in an asset extension: continue
SkipAsset ==
    /\ AtLink
    /\ driverAlive
    /\ IsAsset(frontier[pos])
    /\ pos' = pos + 1
    /\ UNCHANGED mainVars
    /\ UNCHANGED <<comp, pc, storeVars, keyVars, asmVars, linkVars,
                   parseVars, manyVars, normVars, driverAlive, frontier,
                   attempted, total, crawlPc>>

\* the page is loaded in the browser
Rendering ==
    /\ AtLink
    /\ driverAlive
    /\ ~IsAsset(frontier[pos])
    /\ attempted' = Append(attempted, frontier[pos])

\* scrape_with_selenium returns None: continue
RenderNothing ==
    /\ Rendering
    /\ pos' = pos + 1
    /\ UNCHANGED mainVars
    /\ UNCHANGED <<comp, pc, storeVars, keyVars, asmVars, linkVars,
                   parseVars, manyVars, normVars, driverAlive, frontier,
                   total, crawlPc>>

\* parse_html_many raises or returns no record: continue
NoUnits ==
    /\ Rendering
    /\ \E html \in CrawlPages :
          \E r \in {ResultsOf(frontier[pos], html)} :
              r.raised \/ r.recs = <<>>
    /\ pos' = pos + 1
    /\ UNCHANGED mainVars
    /\ UNCHANGED <<comp, pc, storeVars, keyVars, asmVars, linkVars,
                   parseVars, manyVars, normVars, driverAlive, frontier,
                   total, crawlPc>>

\* insert_listings(results) returns
InsertResults ==
    /\ Rendering
    /\ \E html \in CrawlPages :
          \E r \in {ResultsOf(frontier[pos], html)} :
              /\ ~r.raised
              /\ r.recs # <<>>
              /\ listings' = r.recs
              /\ valid' = ValidRows(r.recs)
              /\ table' = ExecuteMany(table, valid')
              /\ ret' = Len(valid')
              /\ written' = {table'[i].id : i \in {j \in 1..Len(table') :
                                \E k \in 1..Len(valid') :
                                    valid'[k].url = table'[j].url}}
    /\ calls' = calls + 1
    /\ tableBefore' = table
    /\ total' = total + ret'
    /\ pos' = pos + 1
    /\ UNCHANGED mainVars
    /\ UNCHANGED <<comp, pc, dbExists, stabilized, asmVars, linkVars,
                   parseVars, manyVars, normVars, driverAlive, frontier,
                   crawlPc>>

\* insert_listings(results) raises sqlite3.Error: nothing is written, and
\* the exception leaves scrape_site
InsertRaises ==
    /\ Rendering
    /\ \E html \in CrawlPages :
          \E r \in {ResultsOf(frontier[pos], html)} :
              ~r.raised /\ r.recs # <<>> /\ listings' = r.recs
    /\ calls' = calls + 1
    /\ tableBefore' = table
    /\ crawlPc' = "raised"
    /\ pc' = "done"
    /\ retired' = retired \cup {driver}
    /\ UNCHANGED <<siteNo, mainPc, driver>>
    /\ UNCHANGED <<comp, dbExists, table, valid, ret, written, stabilized,
                   asmVars, linkVars, parseVars, manyVars, normVars,
                   driverAlive, frontier, pos, total>>

\* the loop has run through the candidates
CrawlReturns ==
    /\ comp = "crawl"
    /\ crawlPc = "loop"
    /\ pos > Len(frontier)
    /\ crawlPc' = "finished"
    /\ pc' = "done"
    /\ UNCHANGED mainVars
    /\ UNCHANGED <<comp, storeVars, keyVars, asmVars, linkVars, parseVars,
                   manyVars, normVars, driverAlive, frontier, pos, attempted,
                   total>>

NextCrawl ==
    \/ CrawlDiscover
    \/ DriverCrash
    \/ BreakOnDeadDriver
    \/ SkipAsset
    \/ RenderNothing
    \/ NoUnits
    \/ InsertResults
    \/ InsertRaises
    \/ CrawlReturns

SpecCrawl == InitCrawl /\ [][NextCrawl]_vars

----------------------------------------------------------------------------
(* scraper_selenium.py: the main block, one driver for all the sites *)

MaxSites == 2

\* the sites of the run, each with its allow and deny patterns
START_SITES ==
    [i \in 1..MaxSites |->
        [url   |-> [host |-> <<"x", ".", "c", "o", "m">>,
                    path |-> IF i = 2 THEN <<"/", "p", "l", "a", "n", "s", ".",
                                             "p", "d", "f">> ELSE <<"/", "p",
                                                                    "l", "a",
                                                                    "n", "s">>,
                    query |-> <<>>],
         allow |-> << <<"/", "l", "i", "s", "t", "i", "n", "g", "s">> >>,
         deny  |-> << <<"/", "b", "l", "o", "g">> >>]]

\* ensure_db(); driver = create_driver()
InitMain ==
    /\ comp = "crawl"
    /\ pc = "in"
    /\ dbExists = TRUE
    /\ table = <<>>
    /\ valid = <<>>
    /\ ret = None
    /\ written = {}
    /\ calls = 0
    /\ tableBefore = <<>>
    /\ KeysIdle
    /\ AsmIdle
    /\ LinkIdle
    /\ ParseIdle
    /\ ManyIdle
    /\ NormIdle
    /\ driverAlive = TRUE
    /\ frontier = <<>>
    /\ pos = 0
    /\ attempted = <<>>
    /\ total = 0
    /\ crawlPc = "idle"
    /\ siteNo = 1
    /\ mainPc = "check"
    /\ driver = 1
    /\ retired = {}

\* the browser dies between two sites (the environment)
CrashBetweenSites ==
    /\ comp = "crawl"
    /\ mainPc = "check"
    /\ driverAlive
    /\ driverAlive' = FALSE
    /\ UNCHANGED <<comp, pc, storeVars, keyVars, asmVars, linkVars,
                   parseVars, manyVars, normVars, frontier, pos, attempted,
                   total, crawlPc, mainVars>>

AtSite == comp = "crawl" /\ mainPc = "check" /\ siteNo <= MaxSites

\* scrape_site(driver, url, allow_patterns=allow, deny_patterns=deny) is
\* entered; what the seed page holds is for the site to say
BeginSite ==
    /\ mainPc' = "scrape"
    /\ pc' = "in"
    /\ startUrl' = START_SITES[siteNo].url
    /\ allowPat' = START_SITES[siteNo].allow
    /\ denyPat' = START_SITES[siteNo].deny
    /\ sameDomain' = TRUE
    /\ \/ fetched' = FALSE /\ anchors' = <<>>
       \/ fetched' = TRUE /\ anchors' \in SeqsUpTo(CrawlHrefs, MaxLinks)
    /\ out' = <<>>
    /\ frontier' = <<>>
    /\ pos' = 0
    /\ attempted' = <<>>
    /\ total' = 0
    /\ crawlPc' = "start"
    /\ UNCHANGED <<comp, storeVars, keyVars, asmVars, parseVars, manyVars,
                   normVars, siteNo>>

\* the driver is dead and nothing replaces it before the site
EnterUnchecked ==
    /\ AtSite
    /\ ~driverAlive
    /\ BeginSite
    /\ UNCHANGED <<driverAlive, driver, retired>>

\* check_driver_health(driver) holds before the site
EnterSite ==
    /\ AtSite
    /\ driverAlive
    /\ BeginSite
    /\ UNCHANGED <<driverAlive, driver, retired>>

\* the driver is found dead before the site: driver.quit() and
\* driver = create_driver()
RecreateAndEnter ==
    /\ AtSite
    /\ ~driverAlive
    /\ BeginSite
    /\ driverAlive' = TRUE
    /\ driver' = driver + 1
    /\ retired' = retired \cup {driver}

\* the driver is found dead before the site and create_driver() raises: the
\* handler of the site takes over
RecreateFails ==
    /\ AtSite
    /\ ~driverAlive
    /\ mainPc' = "recover"
    /\ retired' = retired \cup {driver}
    /\ UNCHANGED <<comp, pc, storeVars, keyVars, asmVars, linkVars,
                   parseVars, manyVars, normVars, driverAlive, frontier, pos,
                   attempted, total, crawlPc, siteNo, driver>>

\* scrape_site returned, after the last candidate or after the break
SiteReturns ==
    /\ comp = "crawl"
    /\ mainPc = "scrape"
    /\ crawlPc \in {"finished", "broke"}
    /\ siteNo' = siteNo + 1
    /\ mainPc' = "check"
    /\ UNCHANGED <<comp, pc, storeVars, keyVars, asmVars, linkVars,
                   parseVars, manyVars, normVars, driverAlive, frontier, pos,
                   attempted, total, crawlPc, driver, retired>>

InHandler ==
    /\ comp = "crawl"
    /\ \/ mainPc = "scrape" /\ crawlPc = "raised"
       \/ mainPc = "recover"

\* except Exception: driver.quit() and driver = create_driver()
Recover ==
    /\ InHandler
    /\ driverAlive' = TRUE
    /\ driver' = driver + 1
    /\ retired' = retired \cup {driver}
    /\ siteNo' = siteNo + 1
    /\ mainPc' = "check"
    /\ UNCHANGED <<comp, pc, storeVars, keyVars, asmVars, linkVars,
                   parseVars, manyVars, normVars, frontier, pos, attempted,
                   total, crawlPc>>

\* create_driver() raises in the handler: the exception leaves the loop
RecoverFails ==
    /\ InHandler
    /\ mainPc' = "end"
    /\ retired' = retired \cup {driver}
    /\ UNCHANGED <<comp, pc, storeVars, keyVars, asmVars, linkVars,
                   parseVars, manyVars, normVars, driverAlive, frontier, pos,
                   attempted, total, crawlPc, siteNo, driver>>

\* the loop is over: finally driver.quit()
MainEnds ==
    /\ comp = "crawl"
    /\ mainPc = "check"
    /\ siteNo > MaxSites
    /\ mainPc' = "end"
    /\ driverAlive' = FALSE
    /\ UNCHANGED <<comp, pc, storeVars, keyVars, asmVars, linkVars,
                   parseVars, manyVars, normVars, frontier, pos, attempted,
                   total, crawlPc, siteNo, driver, retired>>

NextMain ==
    \/ CrashBetweenSites
    \/ EnterSite
    \/ RecreateAndEnter
    \/ RecreateFails
    \/ CrawlDiscover
    \/ DriverCrash
    \/ BreakOnDeadDriver
    \/ SkipAsset
    \/ RenderNothing
    \/ NoUnits
    \/ InsertResults
    \/ InsertRaises
    \/ CrawlReturns
    \/ SiteReturns
    \/ Recover
    \/ RecoverFails
    \/ MainEnds

SpecMain == InitMain /\ [][NextMain]_vars

\* C27: a page is rendered only by a driver that is alive and was never found
\* dead, a site is entered only with such a driver, and whenever the driver
\* changes the old one is retired and the new one is newly created and alive
DeadDriverReplaced ==
    [][/\ (Len(attempted') > Len(attempted)) =>
              (driverAlive /\ driver \notin retired)
       /\ (mainPc = "check" /\ mainPc' = "scrape") =>
              (driverAlive' /\ driver' \notin retired')
       /\ (retired' # retired /\ mainPc' \in {"check", "scrape"}) =>
              \/ crawlPc' \in {"broke", "raised"} /\ mainPc' = "scrape"
              \/ driver' \notin retired' /\ driverAlive'
       /\ (driver' # driver) =>
              (driver \in retired' /\ driver' \notin retired /\ driverAlive')
      ]_vars

\* the second site has a page rendered by the driver that replaced the first
DeadDriverReplacedWitness ==
    /\ mainPc = "scrape"
    /\ siteNo = 2
    /\ driver = 2
    /\ retired = {1}
    /\ Len(attempted) >= 1

----------------------------------------------------------------------------
(* Properties of scrape_site (SpecCrawl) *)

SeedFetchFailed == comp = "crawl" /\ ~fetched /\ crawlPc # "start"

Ended == crawlPc \in {"broke", "finished", "raised"}

\* C11 as stated: when the fetch of the seed page fails, discover_links
\* returns an empty list, and scrape_site treats the seed url as the only
\* candidate and attempts exactly the seed url
SeedAttempted ==
    SeedFetchFailed =>
        /\ out = <<>>
        /\ frontier = <<SeedText(startUrl)>>
        /\ Ended => attempted = <<SeedText(startUrl)>>

\* C11: when the fetch of the seed page fails, discover_links
\* returns an empty list and the seed url is the only candidate of
\* scrape_site: no other url is attempted, and the seed url is attempted
\* exactly once unless the browser is found dead or the seed url ends in an
\* asset extension, in which cases nothing is attempted
SeedOnlyCandidate ==
    SeedFetchFailed =>
        /\ out = <<>>
        /\ frontier = <<SeedText(startUrl)>>
        /\ \A i \in 1..Len(attempted) : attempted[i] = SeedText(startUrl)
        /\ Len(attempted) <= 1
        /\ Ended =>
              attempted =
                 IF crawlPc = "broke" \/ IsAsset(SeedText(startUrl))
                 THEN <<>> ELSE <<SeedText(startUrl)>>

\* the fetch failed although the seed page has anchors, and the seed url was
\* attempted
SeedOnlyCandidateWitness ==
    /\ SeedFetchFailed
    /\ anchors # <<>>
    /\ crawlPc = "finished"
    /\ attempted = <<SeedText(startUrl)>>

\* C17: a failure on one page (the render gives nothing, the extraction
\* raises, the persistence raises) stays with that page: nothing leaves
\* scrape_site as an exception, and every later candidate is still attempted
PageFailureIsolated ==
    comp = "crawl" =>
        /\ crawlPc # "raised"
        /\ Ended =>
              \A i \in 1..Len(frontier) :
                  ~IsAsset(frontier[i]) => frontier[i] \in Range(attempted)

----------------------------------------------------------------------------

====
